---- MODULE Spec2Model ----
(***************************************************************************)
(* Model of the bulk spreadsheet import of the salary tracker              *)
(* (src/src/components/BulkImport.tsx) against the hosted persistence      *)
(* service (src/supabase/migrations).                                      *)
(*                                                                         *)
(* Strings are TLA+ strings; the JavaScript string functions the code      *)
(* uses are computed character by character with Len, SubSeq and \o.       *)
(* A value that may be absent (null, undefined, NaN) is a sequence of      *)
(* length 0 or 1.                                                          *)
(***************************************************************************)
EXTENDS Integers, Sequences, FiniteSets, TLC

(***************************************************************************)
(* JavaScript string primitives                                            *)
(***************************************************************************)
CharAt(s, i) == SubSeq(s, i, i)

LowerLetters == "abcdefghijklmnopqrstuvwxyz"

UpperLetters == "ABCDEFGHIJKLMNOPQRSTUVWXYZ"

DigitChars == "0123456789"

\* position of the character c in the alphabet, 0 when it is not in it
IndexIn(c, alphabet) ==
    IF \E i \in 1..Len(alphabet) : CharAt(alphabet, i) = c
    THEN CHOOSE i \in 1..Len(alphabet) : CharAt(alphabet, i) = c
    ELSE 0

IsDigit(c) == IndexIn(c, DigitChars) > 0

DigitValue(c) == IndexIn(c, DigitChars) - 1

RECURSIVE toUpperCase(_)
toUpperCase(s) ==
    IF Len(s) = 0 THEN ""
    ELSE LET c == CharAt(s, 1)
             k == IndexIn(c, LowerLetters)
         IN  (IF k > 0 THEN CharAt(UpperLetters, k) ELSE c)
                 \o toUpperCase(SubSeq(s, 2, Len(s)))

RECURSIVE toLowerCase(_)
toLowerCase(s) ==
    IF Len(s) = 0 THEN ""
    ELSE LET c == CharAt(s, 1)
             k == IndexIn(c, UpperLetters)
         IN  (IF k > 0 THEN CharAt(LowerLetters, k) ELSE c)
                 \o toLowerCase(SubSeq(s, 2, Len(s)))

\* String.prototype.includes
includes(s, sub) ==
    \E i \in 0..(Len(s) - Len(sub)) : SubSeq(s, i + 1, i + Len(sub)) = sub

\* String.prototype.trim, for the one white-space character of the inputs
RECURSIVE trim(_)
trim(s) ==
    IF Len(s) = 0 THEN ""
    ELSE IF CharAt(s, 1) = " " THEN trim(SubSeq(s, 2, Len(s)))
    ELSE IF CharAt(s, Len(s)) = " " THEN trim(SubSeq(s, 1, Len(s) - 1))
    ELSE s

\* String.prototype.split(" "): consecutive separators give empty parts
RECURSIVE split(_)
split(s) ==
    IF ~ includes(s, " ") THEN <<s>>
    ELSE LET i == CHOOSE j \in 1..Len(s) :
                      /\ CharAt(s, j) = " "
                      /\ \A k \in 1..(j - 1) : CharAt(s, k) # " "
         IN  <<SubSeq(s, 1, i - 1)>> \o split(SubSeq(s, i + 1, Len(s)))

\* the value of the longest prefix of digits of s, after the digits acc
RECURSIVE DigitsValue(_, _)
DigitsValue(s, acc) ==
    IF Len(s) = 0 \/ ~ IsDigit(CharAt(s, 1)) THEN acc
    ELSE DigitsValue(SubSeq(s, 2, Len(s)), 10 * acc + DigitValue(CharAt(s, 1)))

\* parseInt and parseFloat on a string without ".", "e" or "x": an optional
\* sign, then the longest prefix of digits; <<>> is NaN
ParseNumber(s) ==
    LET t    == trim(s)
        sgn  == IF Len(t) > 0 /\ CharAt(t, 1) = "-" THEN -1 ELSE 1
        body == IF Len(t) > 0 /\ CharAt(t, 1) \in {"-", "+"}
                THEN SubSeq(t, 2, Len(t)) ELSE t
    IN  IF Len(body) = 0 \/ ~ IsDigit(CharAt(body, 1)) THEN <<>>
        ELSE <<sgn * DigitsValue(body, 0)>>

parseInt(s) == ParseNumber(s)

parseFloat(s) == ParseNumber(s)

\* String(n) of an integer
RECURSIVE NatToString(_)
NatToString(n) ==
    IF n < 10 THEN CharAt(DigitChars, n + 1)
    ELSE NatToString(n \div 10) \o CharAt(DigitChars, (n % 10) + 1)

NumberToString(n) == IF n < 0 THEN "-" \o NatToString(-n) ELSE NatToString(n)

\* val.replace(/[^0-9.+-]/g, "")
RECURSIVE StripNonNumeric(_)
StripNonNumeric(s) ==
    IF Len(s) = 0 THEN ""
    ELSE LET c == CharAt(s, 1)
         IN  (IF IsDigit(c) \/ c \in {".", "+", "-"} THEN c ELSE "")
                 \o StripNonNumeric(SubSeq(s, 2, Len(s)))

(***************************************************************************)
(* parseMonthYear (BulkImport.tsx)                                         *)
(***************************************************************************)
monthMap ==
    ("JAN" :> 1) @@ ("FEB" :> 2) @@ ("MAR" :> 3) @@ ("APR" :> 4) @@
    ("MAY" :> 5) @@ ("JUN" :> 6) @@ ("JUL" :> 7) @@ ("AUG" :> 8) @@
    ("SEP" :> 9) @@ ("OCT" :> 10) @@ ("NOV" :> 11) @@ ("DEC" :> 12)

\* <<>> is null, otherwise <<[month, year]>>
\* parseMonthYear with months counted from 0, as Date.getMonth() counts them
parseMonthYearZeroBased(monthYearStr) ==
    LET parts == split(trim(monthYearStr))
    IN  IF Len(parts) # 2 THEN <<>>
        ELSE IF toUpperCase(parts[1]) \notin DOMAIN monthMap \/ parseInt(parts[2]) = <<>>
        THEN <<>>
        ELSE <<[month |-> monthMap[toUpperCase(parts[1])] - 1,
                year  |-> parseInt(parts[2])[1]]>>

parseMonthYear(monthYearStr) ==
    LET parts == split(trim(monthYearStr))
    IN  IF Len(parts) # 2 THEN <<>>
        ELSE LET key  == toUpperCase(parts[1])
                 year == parseInt(parts[2])
             IN  IF key \notin DOMAIN monthMap \/ year = <<>> THEN <<>>
                 ELSE <<[month |-> monthMap[key], year |-> year[1]]>>

(***************************************************************************)
(* The fixed per-employer category registries (BulkImport.tsx)             *)
(***************************************************************************)
ORG_EARNINGS ==
    ("TCS" :> <<"Basic Salary", "BoB Kitty Allowance", "Conveyance Taxable",
                "Conveyance Non Taxable", "HRA", "Sundry Medical", "LTA",
                "Personal Allowance", "Miscellaneous", "City Allowance",
                "Performance Pay", "Leave Encashment">>) @@
    ("RBS" :> <<"Basic Pay", "Supplementary Allowance", "HRA", "Statutory Bonus",
                "Oncall Allowance", "National Holiday Pay", "Ovation Award",
                "Leave Encashment", "Vaccine Payout", "Shift Allowance">>) @@
    ("CITI" :> <<"Basic", "HRA", "Special Allowance",
                 "Location Premium Alllownace", "Holiday Pay",
                 "Citi Gratitude Bonus", "Award">>) @@
    ("NATWEST" :> <<"Base Salary", "Supplementary Allowance", "HRA",
                    "Shift Allowance", "Oncall Allowance", "Bonus",
                    "Telephone Unclaimed", "Compulsory Holiday Pay",
                    "Share SIS Award">>)

ORG_DEDUCTIONS ==
    ("TCS" :> <<"Provident Fund", "Income Tax",
                "Health Insurance Scheme Premium", "Professional Tax",
                "Labour Welfare", "Transport Recovery", "TCS Welfar Trust",
                "Earlier Payout", "Principal Loan Amount">>) @@
    ("RBS" :> <<"Income Tax", "Provident Fund", "Professional Tax",
                "Hospitalisation Insurance", "VPCP Father", "VPCP Mother",
                "Life Insurance Topup", "VPCP Topup Father", "Voluntary PF",
                "Labour Welfare Fund">>) @@
    ("CITI" :> <<"Income Tax", "Provident Fund", "Mediclaim Premium",
                 "Mediclaim Insurance Dependent", "Professional Tax",
                 "Citi Gratitude Deductions", "Insurance OPD Recovery">>) @@
    ("NATWEST" :> <<"Income Tax", "Provident Fund", "Professional Tax",
                    "Hospitalisation Insurance", "VPC Father", "VPC Mother",
                    "VPC Topup Father", "VPC Topup Mother",
                    "Labour Welfare Fund", "Share SIS Award">>)

\* ORG_EARNINGS[organization] ?? []
orgEarningsOf(organization) ==
    IF organization \in DOMAIN ORG_EARNINGS THEN ORG_EARNINGS[organization] ELSE <<>>

\* ORG_DEDUCTIONS[organization] ?? []
orgDeductionsOf(organization) ==
    IF organization \in DOMAIN ORG_DEDUCTIONS THEN ORG_DEDUCTIONS[organization] ELSE <<>>

SeqToSet(seq) == {seq[i] : i \in 1..Len(seq)}

\* Array.prototype.includes
InSeq(e, seq) == \E i \in 1..Len(seq) : seq[i] = e

deductionKeywords ==
    <<"tax", "pf", "provident", "esi", "insurance", "professional", "labour",
      "welfare", "recovery", "loan", "tcs", "earlier payout", "principal">>

\* the keyword test without the lower-casing of the header
isDeductionHeaderCaseSensitive(header) ==
    \E k \in 1..Len(deductionKeywords) : includes(header, deductionKeywords[k])

isDeductionHeader(header) ==
    LET h == toLowerCase(header)
    IN  \E k \in 1..Len(deductionKeywords) : includes(h, deductionKeywords[k])

(***************************************************************************)
(* processSheet (BulkImport.tsx).  A sheet as the spreadsheet codec hands  *)
(* it over: the columns in sheet order and one row object per data row, a  *)
(* function from the headers of its non-empty cells to the cells.  A cell  *)
(* is a number (t = "num", the value in n) or a string (t = "str", the     *)
(* text in s).                                                             *)
(***************************************************************************)
TOTAL_EARNINGS_HEADER == "Total Earnings"

TOTAL_DEDUCTIONS_HEADER == "Total Deductions"

NET_SALARY_HEADER == "Net Salary"

\* Object.keys(data[0]): the headers of the first row, in column order
HeadersOf(sheet) ==
    SelectSeq(sheet.cols, LAMBDA h : h \in DOMAIN sheet.rows[1])

\* headers.find(h => lower(h) has "month" and "year") ?? headers[0]
MonthYearHeaderOf(headers) ==
    LET hit(h) == /\ includes(toLowerCase(h), "month")
                  /\ includes(toLowerCase(h), "year")
    IN  IF \E i \in 1..Len(headers) : hit(headers[i])
        THEN headers[CHOOSE i \in 1..Len(headers) :
                         hit(headers[i]) /\ \A j \in 1..(i - 1) : ~ hit(headers[j])]
        ELSE headers[1]

ReservedHeadersOf(headers) ==
    {MonthYearHeaderOf(headers), TOTAL_EARNINGS_HEADER,
     TOTAL_DEDUCTIONS_HEADER, NET_SALARY_HEADER}

\* the coercion of a cell to a number; <<>> is null
NumValOf(row, headerKey) ==
    IF headerKey \notin DOMAIN row THEN <<>>
    ELSE IF row[headerKey].t = "num" THEN <<row[headerKey].n>>
    ELSE LET cleaned == StripNonNumeric(row[headerKey].s)
         IN  IF Len(cleaned) > 0 THEN parseFloat(cleaned) ELSE <<>>

\* the loop body that does not look up the reserved headers
ScanCellNoReserved(acc, headerKey, numVal, reserved, organization) ==
    IF headerKey = TOTAL_EARNINGS_HEADER /\ numVal # <<>>
        THEN [acc EXCEPT !.earningsTotal = numVal[1]]
    ELSE IF headerKey = TOTAL_DEDUCTIONS_HEADER /\ numVal # <<>>
        THEN [acc EXCEPT !.deductionsTotal = numVal[1]]
    ELSE IF headerKey = NET_SALARY_HEADER /\ numVal # <<>>
        THEN [acc EXCEPT !.netSalary = numVal[1]]
    ELSE IF numVal = <<>> \/ numVal = <<0>>
        THEN acc
    ELSE IF InSeq(headerKey, orgEarningsOf(organization))
        THEN [acc EXCEPT !.earnings =
                 Append(@, [category |-> headerKey, amount |-> numVal[1]])]
    ELSE IF InSeq(headerKey, orgDeductionsOf(organization))
        THEN [acc EXCEPT !.deductions =
                 Append(@, [category |-> headerKey, amount |-> numVal[1]])]
    ELSE IF isDeductionHeader(headerKey)
        THEN [acc EXCEPT !.deductions =
                 Append(@, [category |-> headerKey, amount |-> numVal[1]])]
    ELSE [acc EXCEPT !.earnings =
             Append(@, [category |-> headerKey, amount |-> numVal[1]])]

\* the loop body that keeps the cells whose number is 0
ScanCellKeepZero(acc, headerKey, numVal, reserved, organization) ==
    IF headerKey = TOTAL_EARNINGS_HEADER /\ numVal # <<>>
        THEN [acc EXCEPT !.earningsTotal = numVal[1]]
    ELSE IF headerKey = TOTAL_DEDUCTIONS_HEADER /\ numVal # <<>>
        THEN [acc EXCEPT !.deductionsTotal = numVal[1]]
    ELSE IF headerKey = NET_SALARY_HEADER /\ numVal # <<>>
        THEN [acc EXCEPT !.netSalary = numVal[1]]
    ELSE IF headerKey \in reserved \/ numVal = <<>>
        THEN acc
    ELSE IF InSeq(headerKey, orgEarningsOf(organization))
        THEN [acc EXCEPT !.earnings =
                 Append(@, [category |-> headerKey, amount |-> numVal[1]])]
    ELSE IF InSeq(headerKey, orgDeductionsOf(organization))
        THEN [acc EXCEPT !.deductions =
                 Append(@, [category |-> headerKey, amount |-> numVal[1]])]
    ELSE IF isDeductionHeader(headerKey)
        THEN [acc EXCEPT !.deductions =
                 Append(@, [category |-> headerKey, amount |-> numVal[1]])]
    ELSE [acc EXCEPT !.earnings =
             Append(@, [category |-> headerKey, amount |-> numVal[1]])]

\* the loop body that looks up the deduction list before the earning list
ScanCellDeductionFirst(acc, headerKey, numVal, reserved, organization) ==
    IF headerKey = TOTAL_EARNINGS_HEADER /\ numVal # <<>>
        THEN [acc EXCEPT !.earningsTotal = numVal[1]]
    ELSE IF headerKey = TOTAL_DEDUCTIONS_HEADER /\ numVal # <<>>
        THEN [acc EXCEPT !.deductionsTotal = numVal[1]]
    ELSE IF headerKey = NET_SALARY_HEADER /\ numVal # <<>>
        THEN [acc EXCEPT !.netSalary = numVal[1]]
    ELSE IF headerKey \in reserved \/ numVal = <<>> \/ numVal = <<0>>
        THEN acc
    ELSE IF InSeq(headerKey, orgDeductionsOf(organization))
        THEN [acc EXCEPT !.deductions =
                 Append(@, [category |-> headerKey, amount |-> numVal[1]])]
    ELSE IF InSeq(headerKey, orgEarningsOf(organization))
        THEN [acc EXCEPT !.earnings =
                 Append(@, [category |-> headerKey, amount |-> numVal[1]])]
    ELSE IF isDeductionHeader(headerKey)
        THEN [acc EXCEPT !.deductions =
                 Append(@, [category |-> headerKey, amount |-> numVal[1]])]
    ELSE [acc EXCEPT !.earnings =
             Append(@, [category |-> headerKey, amount |-> numVal[1]])]

\* the loop body once numVal is known: the declared totals, the skip of
\* reserved, null and zero cells, then the classification
ScanCell(acc, headerKey, numVal, reserved, organization) ==
    IF headerKey = TOTAL_EARNINGS_HEADER /\ numVal # <<>>
        THEN [acc EXCEPT !.earningsTotal = numVal[1]]
    ELSE IF headerKey = TOTAL_DEDUCTIONS_HEADER /\ numVal # <<>>
        THEN [acc EXCEPT !.deductionsTotal = numVal[1]]
    ELSE IF headerKey = NET_SALARY_HEADER /\ numVal # <<>>
        THEN [acc EXCEPT !.netSalary = numVal[1]]
    ELSE IF headerKey \in reserved \/ numVal = <<>> \/ numVal = <<0>>
        THEN acc
    ELSE IF InSeq(headerKey, orgEarningsOf(organization))
        THEN [acc EXCEPT !.earnings =
                 Append(@, [category |-> headerKey, amount |-> numVal[1]])]
    ELSE IF InSeq(headerKey, orgDeductionsOf(organization))
        THEN [acc EXCEPT !.deductions =
                 Append(@, [category |-> headerKey, amount |-> numVal[1]])]
    ELSE IF isDeductionHeader(headerKey)
        THEN [acc EXCEPT !.deductions =
                 Append(@, [category |-> headerKey, amount |-> numVal[1]])]
    ELSE [acc EXCEPT !.earnings =
             Append(@, [category |-> headerKey, amount |-> numVal[1]])]

\* one pass of the loop over the headers of a row
ScanColumn(acc, row, headerKey, reserved, organization) ==
    ScanCell(acc, headerKey, NumValOf(row, headerKey), reserved, organization)

RECURSIVE ScanColumns(_, _, _, _, _, _)
ScanColumns(acc, row, headers, i, reserved, organization) ==
    IF i > Len(headers) THEN acc
    ELSE ScanColumns(ScanColumn(acc, row, headers[i], reserved, organization),
                     row, headers, i + 1, reserved, organization)

\* the ParsedRecord of a row whose Month/Year cell parsed
RecordOfRow(row, headers, parsed, organization) ==
    LET acc == ScanColumns([earnings |-> <<>>, deductions |-> <<>>,
                            earningsTotal |-> 0, deductionsTotal |-> 0,
                            netSalary |-> 0],
                           row, headers, 1, ReservedHeadersOf(headers), organization)
    IN  [organization    |-> organization,
         month           |-> parsed.month,
         year            |-> parsed.year,
         earnings        |-> acc.earnings,
         deductions      |-> acc.deductions,
         totalEarnings   |-> acc.earningsTotal,
         totalDeductions |-> acc.deductionsTotal,
         netSalary       |-> acc.netSalary]

\* !monthYearStr: undefined, the empty string and the number 0 are falsy
MonthYearMissing(row, monthYearHeader) ==
    \/ monthYearHeader \notin DOMAIN row
    \/ (row[monthYearHeader].t = "str" /\ Len(row[monthYearHeader].s) = 0)
    \/ (row[monthYearHeader].t = "num" /\ row[monthYearHeader].n = 0)

\* String(monthYearStr)
CellToString(cell) == IF cell.t = "num" THEN NumberToString(cell.n) ELSE cell.s

\* a row whose Month/Year cell is present: invalid format, or a record
ParseRowAt(out, row, headers, monthYearStr, parsed, excelRowNumber, organization) ==
    IF parsed = <<>>
    THEN [out EXCEPT
            !.skippedRows = @ + 1,
            !.invalidRows = Append(@,
                [sheetName      |-> organization,
                 excelRowNumber |-> excelRowNumber,
                 reason         |-> "Invalid Month/Year format: " \o monthYearStr])]
    ELSE [out EXCEPT
            !.records = Append(@, RecordOfRow(row, headers, parsed[1], organization))]

ParseRowString(out, row, headers, monthYearStr, excelRowNumber, organization) ==
    ParseRowAt(out, row, headers, monthYearStr, parseMonthYear(monthYearStr),
               excelRowNumber, organization)

\* the body of the loop over the rows
ScanRow(out, row, headers, monthYearHeader, excelRowNumber, organization) ==
    IF MonthYearMissing(row, monthYearHeader)
    THEN [out EXCEPT
            !.skippedRows = @ + 1,
            !.invalidRows = Append(@,
                [sheetName      |-> organization,
                 excelRowNumber |-> excelRowNumber,
                 reason         |-> "Missing Month/Year value"])]
    ELSE ParseRowString(out, row, headers, CellToString(row[monthYearHeader]),
                        excelRowNumber, organization)

RECURSIVE ScanRows(_, _, _, _, _)
ScanRows(out, sheet, headers, i, organization) ==
    IF i > Len(sheet.rows) THEN out
    ELSE ScanRows(ScanRow(out, sheet.rows[i], headers, MonthYearHeaderOf(headers),
                          i + 1, organization),
                  sheet, headers, i + 1, organization)

processSheet(sheet, organization) ==
    LET empty == [records |-> <<>>, skippedRows |-> 0, invalidRows |-> <<>>]
    IN  IF Len(sheet.rows) = 0 THEN empty
        ELSE ScanRows(empty, sheet, HeadersOf(sheet), 1, organization)

(***************************************************************************)
(* The plan builder of handleFileUpload (BulkImport.tsx): processSheet     *)
(* over every sheet of the workbook, in the workbook's sheet order.        *)
(***************************************************************************)
\* a plan builder that keeps the sheets that gave nothing
AddSheetPlanAlways(plan, sheetName, res) ==
    [sheets |-> Append(plan.sheets,
                    [sheetName   |-> sheetName,
                     records     |-> res.records,
                     skippedRows |-> res.skippedRows]),
     totalRecordsToImport |-> plan.totalRecordsToImport + Len(res.records),
     totalSkippedRows     |-> plan.totalSkippedRows + res.skippedRows,
     invalidRows          |-> plan.invalidRows \o res.invalidRows]

\* a plan builder that puts the invalid rows of a sheet before those of
\* the sheets it went through earlier
AddSheetPlanPrepending(plan, sheetName, res) ==
    IF Len(res.records) = 0 /\ Len(res.invalidRows) = 0 THEN plan
    ELSE [sheets |-> Append(plan.sheets,
                        [sheetName   |-> sheetName,
                         records     |-> res.records,
                         skippedRows |-> res.skippedRows]),
          totalRecordsToImport |-> plan.totalRecordsToImport + Len(res.records),
          totalSkippedRows     |-> plan.totalSkippedRows + res.skippedRows,
          invalidRows          |-> res.invalidRows \o plan.invalidRows]

\* sheets.push and the three totals, unless the sheet gave nothing
AddSheetPlan(plan, sheetName, res) ==
    IF Len(res.records) = 0 /\ Len(res.invalidRows) = 0 THEN plan
    ELSE [sheets |-> Append(plan.sheets,
                        [sheetName   |-> sheetName,
                         records     |-> res.records,
                         skippedRows |-> res.skippedRows]),
          totalRecordsToImport |-> plan.totalRecordsToImport + Len(res.records),
          totalSkippedRows     |-> plan.totalSkippedRows + res.skippedRows,
          invalidRows          |-> plan.invalidRows \o res.invalidRows]

RECURSIVE PlanSheets(_, _, _)
PlanSheets(plan, workbook, i) ==
    IF i > Len(workbook.sheets) THEN plan
    ELSE PlanSheets(AddSheetPlan(plan, workbook.sheets[i].sheetName,
                                 processSheet(workbook.sheets[i],
                                              workbook.sheets[i].sheetName)),
                    workbook, i + 1)

BuildImportPlan(workbook) ==
    PlanSheets([sheets |-> <<>>, totalRecordsToImport |-> 0,
                totalSkippedRows |-> 0, invalidRows |-> <<>>], workbook, 1)

\* sheetsFromPlan
RECURSIVE SummarySheets(_, _)
SummarySheets(sheets, i) ==
    IF i > Len(sheets) THEN <<>>
    ELSE <<[sheetName       |-> sheets[i].sheetName,
            recordsImported |-> Len(sheets[i].records),
            skippedRows     |-> sheets[i].skippedRows]>>
         \o SummarySheets(sheets, i + 1)

sheetsFromPlan(plan) == SummarySheets(plan.sheets, 1)

(***************************************************************************)
(* The bounds the import executor re-checks at write time                  *)
(***************************************************************************)
MAX_AMOUNT == 100000000

MIN_YEAR == 2000

MAX_YEAR == 2100

\* the first guard of the record loop: month and year
InvalidMonthYear(record) ==
    \/ record.month < 1
    \/ record.month > 12
    \/ record.year < MIN_YEAR
    \/ record.year > MAX_YEAR

\* the second guard: the declared totals
InvalidTotals(record) ==
    \/ record.totalEarnings < 0
    \/ record.totalDeductions < 0
    \/ record.totalEarnings > MAX_AMOUNT
    \/ record.totalDeductions > MAX_AMOUNT

\* the third guard: hasInvalidLineItem
hasInvalidLineItem(record) ==
    \/ \E i \in 1..Len(record.earnings) :
          record.earnings[i].amount < 0 \/ record.earnings[i].amount > MAX_AMOUNT
    \/ \E i \in 1..Len(record.deductions) :
          record.deductions[i].amount < 0 \/ record.deductions[i].amount > MAX_AMOUNT

SkippedAtWriteTime(record) ==
    InvalidMonthYear(record) \/ InvalidTotals(record) \/ hasInvalidLineItem(record)

\* Array.from(new Set(categories)): the distinct categories, first occurrence first
RECURSIVE AddCategories(_, _, _)
AddCategories(seen, items, i) ==
    IF i > Len(items) THEN seen
    ELSE AddCategories(IF InSeq(items[i].category, seen) THEN seen
                       ELSE Append(seen, items[i].category),
                       items, i + 1)

RECURSIVE CollectCategories(_, _, _, _)
CollectCategories(seen, records, kind, i) ==
    IF i > Len(records) THEN seen
    ELSE CollectCategories(
             AddCategories(seen,
                           IF kind = "earnings" THEN records[i].earnings
                           ELSE records[i].deductions, 1),
             records, kind, i + 1)

allEarningsCategories(records) == CollectCategories(<<>>, records, "earnings", 1)

allDeductionsCategories(records) == CollectCategories(<<>>, records, "deductions", 1)

(***************************************************************************)
(* The persistence service (supabase/migrations): tables of rows.  The     *)
(* primary keys of salary_records and organization_templates come from a   *)
(* counter; all rows belong to the one signed-in user.                     *)
(***************************************************************************)
\* a select that never finds the template of the sheet
TemplatesNamedNever(templates, name) == {t \in templates : FALSE}

\* select * from organization_templates where name = sheetName
TemplatesNamed(templates, name) == {t \in templates : t.name = name}

\* a delete that removes nothing
KeepRows(rows, key, id) == rows

\* delete from <child table> where <foreign key> = id
DeleteWhere(rows, key, id) == SelectSeq(rows, LAMBDA r : r[key] # id)

\* the rows of a child table that belong to id
RowsOf(rows, key, id) == SelectSeq(rows, LAMBDA r : r[key] = id)

RECURSIVE TemplateCategoryRows(_, _, _)
TemplateCategoryRows(templateId, categories, i) ==
    IF i > Len(categories) THEN <<>>
    ELSE <<[template_id |-> templateId, category |-> categories[i]]>>
         \o TemplateCategoryRows(templateId, categories, i + 1)

RECURSIVE LineItemRows(_, _, _)
LineItemRows(salaryRecordId, items, i) ==
    IF i > Len(items) THEN <<>>
    ELSE <<[salary_record_id |-> salaryRecordId,
            category         |-> items[i].category,
            amount           |-> items[i].amount]>>
         \o LineItemRows(salaryRecordId, items, i + 1)

\* salary_records_month_check and salary_records_year_check
ChecksPass(month, year) ==
    month >= 1 /\ month <= 12 /\ year >= 2000 /\ year <= 2100

\* the rows in conflict with (user_id, month, year)
ConflictingRows(records, month, year) ==
    {r \in records : r.month = month /\ r.year = year}

\* the fields the upsert of performImport sends
UpsertFields(record) ==
    [organization     |-> record.organization,
     month            |-> record.month,
     year             |-> record.year,
     total_earnings   |-> record.totalEarnings,
     total_deductions |-> record.totalDeductions,
     net_salary       |-> record.netSalary,
     gross_salary     |-> record.totalEarnings]

\* a plain insert, without the on-conflict clause and the unique constraint
InsertSalaryRecord(records, record, freshId) ==
    records \cup {[id |-> freshId] @@ UpsertFields(record)}

\* insert ... on conflict (user_id, month, year) do update: the table after it
UpsertSalaryRecord(records, record, freshId) ==
    LET hit == ConflictingRows(records, record.month, record.year)
    IN  IF hit = {}
        THEN records \cup {[id |-> freshId] @@ UpsertFields(record)}
        ELSE (records \ hit) \cup {[id |-> r.id] @@ UpsertFields(record) : r \in hit}

\* the id of the row the upsert returns
UpsertedId(records, record, freshId) ==
    LET hit == ConflictingRows(records, record.month, record.year)
    IN  IF hit = {} THEN freshId ELSE (CHOOSE r \in hit : TRUE).id

(***************************************************************************)
(* The workbooks a user may select.  Sheet names are organization names.   *)
(***************************************************************************)
NumCell(num) == [t |-> "num", n |-> num, s |-> ""]

StrCell(str) == [t |-> "str", n |-> 0, s |-> str]

SheetCols ==
    <<"Month Year", "Basic Salary", "HRA", "Income Tax",
      "Total Earnings", "Total Deductions", "Net Salary">>

\* a data row with a cell in every column
FullRow(monthYear, basic, hra, tax, totalE, totalD, net) ==
    ("Month Year" :> monthYear) @@ ("Basic Salary" :> basic) @@ ("HRA" :> hra) @@
    ("Income Tax" :> tax) @@ ("Total Earnings" :> totalE) @@
    ("Total Deductions" :> totalD) @@ ("Net Salary" :> net)

RowJanBasic ==
    FullRow(StrCell("JAN 2025"), NumCell(100), NumCell(0), NumCell(10),
            NumCell(100), NumCell(10), NumCell(90))

RowJanHra ==
    FullRow(StrCell("jan 2025"), StrCell("-"), StrCell("Rs 50"), StrCell("n/a"),
            NumCell(50), NumCell(0), NumCell(50))

RowFebHugeItem ==
    FullRow(StrCell("FEB 2025"), NumCell(150000000), NumCell(0), NumCell(10),
            NumCell(100), NumCell(10), NumCell(90))

RowMarBasic ==
    FullRow(StrCell("MAR 2025"), NumCell(70), NumCell(0), NumCell(0),
            NumCell(70), NumCell(0), NumCell(70))

RowAprHugeTotal ==
    FullRow(StrCell("APR 2025"), NumCell(0), NumCell(20), NumCell(0),
            StrCell("150,000,000"), NumCell(0), NumCell(20))

RowMay1999 ==
    FullRow(StrCell("MAY 1999"), NumCell(0), NumCell(30), NumCell(0),
            NumCell(30), NumCell(0), NumCell(30))

RowJunHugeNet ==
    FullRow(StrCell("JUN 2025"), NumCell(40), NumCell(0), NumCell(0),
            NumCell(40), NumCell(0), NumCell(150000000))

\* a row whose Month/Year cell is empty: the codec leaves the key out
RowNoMonth == ("Basic Salary" :> NumCell(5)) @@ ("Total Earnings" :> NumCell(5))

Sheet(name, rows) == [sheetName |-> name, cols |-> SheetCols, rows |-> rows]

Workbooks ==
    { [name |-> "same-sheet.xlsx",
       sheets |-> <<Sheet("TCS", <<RowJanBasic, RowJanHra>>)>>],
      [name |-> "two-sheets.xlsx",
       sheets |-> <<Sheet("ACME", <<RowJanHra>>), Sheet("TCS", <<RowJanBasic>>)>>],
      [name |-> "bounds.xlsx",
       sheets |-> <<Sheet("TCS", <<RowFebHugeItem, RowMarBasic>>),
                    Sheet("ACME", <<RowAprHugeTotal, RowMay1999, RowJanBasic>>)>>],
      [name |-> "net.xlsx",
       sheets |-> <<Sheet("Cover", <<>>), Sheet("ACME", <<RowJunHugeNet>>)>>],
      [name |-> "invalid.xlsx",
       sheets |-> <<Sheet("TCS", <<RowNoMonth>>), Sheet("ACME", <<RowJanBasic, RowNoMonth>>)>>],
      [name |-> "no-records.xlsx",
       sheets |-> <<Sheet("TCS", <<RowNoMonth>>)>>],
      [name |-> "empty.xlsx",
       sheets |-> <<Sheet("Cover", <<>>)>>] }

NoFile == [name |-> "", sheets |-> <<>>]

\* file selections allowed in one run of the model
MaxImports == 2

(***************************************************************************)
(* State                                                                   *)
(***************************************************************************)
VARIABLES
    \* persistence service
    salary_records, earnings, deductions,
    organization_templates, template_earnings, template_deductions,
    nextId,
    \* React state of the BulkImport component
    selectedFileName, isProcessing, processedRecords, totalRecords,
    importPlan, showConfirm, importSummary,
    \* toast.error and toast.success calls so far
    errorToasts, successToasts,
    \* the running handler: its position and its local variables
    pc, file, si, ri, template, salaryRecord, totalRecordsImported, totalTemplates,
    \* the workbook the last export wrote
    exportedFile,
    \* history: file selections so far; what became of the current plan;
    \* persistence calls and completed record writes of the current
    \* execution; whether the current execution caught a storage error
    \* whether the last upsert met an existing row; the template categories the
    \* current execution deleted
    uploads, planStatus, calls, recordsWritten, aborted, upsertHit, removed,
    \* history: the plan and the tables at the end of the execution before this
    \* one, if that execution ended without a storage error
    imported,
    \* persistence service: the tables only Backup & Restore writes
    employment_history, budget_history, profiles,
    \* React state of Backup & Restore
    pendingBackupData, pendingBackupCounts, backupConfirmOpen, isBackupImporting,
    backupImportTotal, backupImportProcessed, backupImportSummary,
    \* performBackupImport: the index of its running loop
    bi,
    \* history: the backup file selected last; the tables when it was selected;
    \* the persistence calls of the current restore, in the order issued; the
    \* number of backup files selected so far; what became of the last one
    backupFile, accountBefore, restoreCalls, restores, backupStatus,
    \* EditRecordDialog: its props and React state
    editOpen, editRecordId, editOrganization, editMonth, editYear,
    editedEarnings, editedDeductions, isSubmitting,
    \* history: the line items of the record when Save was clicked last; the
    \* number of clicks on Save so far
    itemsBefore, saves,
    \* the backup file the last backup export downloaded; history: the number
    \* of backup exports so far
    backupDownload, exports,
    \* ManualEntryForm: its React state and its ref
    formTemplates, selectedTemplateId, formOrganization, formEarnings,
    formDeductions, templateEarningCategories, templateDeductionCategories,
    latestTemplateIdRef,
    \* the calls of handleTemplateSelect that wait for a response
    fetches,
    \* history: the template selections so far
    selections

db == <<salary_records, earnings, deductions,
        organization_templates, template_earnings, template_deductions>>

dbVars == <<salary_records, earnings, deductions,
            organization_templates, template_earnings, template_deductions, nextId>>

uiVars == <<selectedFileName, isProcessing, processedRecords, totalRecords,
            importPlan, showConfirm, importSummary>>

toastVars == <<errorToasts, successToasts>>

localVars == <<pc, file, si, ri, template, salaryRecord,
               totalRecordsImported, totalTemplates>>

historyVars == <<uploads, planStatus, calls, recordsWritten, aborted, upsertHit, removed>>

backupDb == <<employment_history, budget_history, profiles>>

backupVars == <<employment_history, budget_history, profiles,
                pendingBackupData, pendingBackupCounts, backupConfirmOpen,
                isBackupImporting, backupImportTotal, backupImportProcessed,
                backupImportSummary, bi, backupFile, accountBefore, restoreCalls,
                restores, backupStatus>>

editVars == <<editOpen, editRecordId, editOrganization, editMonth, editYear,
              editedEarnings, editedDeductions, isSubmitting, itemsBefore, saves>>

exportVars == <<backupDownload, exports>>

formVars == <<formTemplates, selectedTemplateId, formOrganization, formEarnings,
              formDeductions, templateEarningCategories, templateDeductionCategories,
              latestTemplateIdRef, fetches, selections>>

vars == <<dbVars, uiVars, toastVars, localVars, exportedFile, historyVars,
          backupVars, editVars, imported, exportVars, formVars>>

\* Backup & Restore before any backup file was selected, in an account
\* without employment history, budget history and profile
BackupIdle ==
    /\ employment_history = <<>>
    /\ budget_history = <<>>
    /\ profiles = <<>>
    /\ pendingBackupData = <<>>
    /\ pendingBackupCounts = <<>>
    /\ backupConfirmOpen = FALSE
    /\ isBackupImporting = FALSE
    /\ backupImportTotal = 0
    /\ backupImportProcessed = 0
    /\ backupImportSummary = <<>>
    /\ bi = 0
    /\ backupFile = <<>>
    /\ accountBefore = <<>>
    /\ restoreCalls = <<>>
    /\ restores = 0
    /\ backupStatus = "none"

\* no EditRecordDialog is open
EditClosed ==
    /\ editOpen = FALSE
    /\ editRecordId = 0
    /\ editOrganization = ""
    /\ editMonth = 0
    /\ editYear = 0
    /\ editedEarnings = <<>>
    /\ editedDeductions = <<>>
    /\ isSubmitting = FALSE
    /\ itemsBefore = <<>>
    /\ saves = 0

\* the ManualEntryForm as it is mounted: the initial values of its state, and
\* the calls that wait for a response
FormInitial(pending) ==
    /\ formTemplates = <<>>
    /\ selectedTemplateId = ""
    /\ formOrganization = ""
    /\ formEarnings = <<[category |-> "Basic Salary", amount |-> "0", description |-> ""]>>
    /\ formDeductions =
           <<[category |-> "Provident Fund (PF)", amount |-> "0", description |-> ""]>>
    /\ templateEarningCategories = <<>>
    /\ templateDeductionCategories = <<>>
    /\ latestTemplateIdRef = <<>>
    /\ fetches = pending
    /\ selections = <<>>

\* the form with no call under way
FormMounted == FormInitial(<<>>)

Init ==
    /\ salary_records = {}
    /\ earnings = <<>>
    /\ deductions = <<>>
    /\ organization_templates = {}
    /\ template_earnings = <<>>
    /\ template_deductions = <<>>
    /\ nextId = 1
    /\ selectedFileName = ""
    /\ isProcessing = FALSE
    /\ processedRecords = 0
    /\ totalRecords = 0
    /\ importPlan = <<>>
    /\ showConfirm = FALSE
    /\ importSummary = <<>>
    /\ errorToasts = 0
    /\ successToasts = 0
    /\ pc = "idle"
    /\ file = NoFile
    /\ exportedFile = NoFile
    /\ si = 0
    /\ ri = 0
    /\ template = 0
    /\ salaryRecord = 0
    /\ totalRecordsImported = 0
    /\ totalTemplates = 0
    /\ uploads = 0
    /\ planStatus = "none"
    /\ calls = 0
    /\ recordsWritten = 0
    /\ aborted = FALSE
    /\ upsertHit = FALSE
    /\ removed = {}
    /\ imported = <<>>
    /\ backupDownload = <<>>
    /\ exports = 0
    /\ FormMounted
    /\ BackupIdle
    /\ EditClosed

(***************************************************************************)
(* handleFileUpload: up to the await of file.arrayBuffer(), then the rest  *)
(***************************************************************************)
HandleFileUploadStart(workbook) ==
    /\ pc = "idle"
    /\ ~ isProcessing
    /\ ~ showConfirm
    /\ uploads < MaxImports
    /\ selectedFileName' = workbook.name
    /\ isProcessing' = TRUE
    /\ processedRecords' = 0
    /\ totalRecords' = 0
    /\ importSummary' = <<>>
    /\ file' = workbook
    /\ pc' = "reading"
    /\ uploads' = uploads + 1
    /\ UNCHANGED <<exportedFile, dbVars, importPlan, showConfirm, toastVars, si, ri, template,
                   salaryRecord, totalRecordsImported, totalTemplates,
                   planStatus, calls, recordsWritten, aborted, upsertHit, removed>>
    /\ UNCHANGED <<backupVars, editVars>>
    /\ UNCHANGED imported
    /\ UNCHANGED <<exportVars, formVars>>

\* the file cannot be read: the catch block
FileUnreadable ==
    /\ errorToasts' = errorToasts + 1
    /\ isProcessing' = FALSE
    /\ UNCHANGED <<totalRecords, importPlan, showConfirm, importSummary, planStatus>>

\* no sheet produced a record or an invalid row
NoDataFound ==
    /\ errorToasts' = errorToasts + 1
    /\ isProcessing' = FALSE
    /\ UNCHANGED <<totalRecords, importPlan, showConfirm, importSummary, planStatus>>

\* the plan is stored and the confirmation dialog opened
PlanDisplayed(plan) ==
    /\ IF plan.totalRecordsToImport = 0
       THEN /\ importSummary' =
                 <<[totalTemplates   |-> 0,
                    totalRecords     |-> 0,
                    totalSkippedRows |-> plan.totalSkippedRows,
                    sheets           |-> sheetsFromPlan(plan)]>>
            /\ UNCHANGED totalRecords
       ELSE /\ totalRecords' = plan.totalRecordsToImport
            /\ UNCHANGED importSummary
    /\ importPlan' = <<plan>>
    /\ showConfirm' = TRUE
    /\ isProcessing' = FALSE
    /\ planStatus' = "shown"
    /\ UNCHANGED errorToasts

\* the end of the try block, once every sheet went through processSheet
PlanBuilt(plan) ==
    IF Len(plan.sheets) = 0 THEN NoDataFound ELSE PlanDisplayed(plan)

\* a plan build that already saves the template of the first sheet
PlanBuiltSavingTemplate(plan) ==
    IF Len(plan.sheets) = 0 THEN NoDataFound /\ UNCHANGED dbVars
    ELSE /\ PlanDisplayed(plan)
         /\ organization_templates' = organization_templates \cup
                {[id |-> nextId, name |-> plan.sheets[1].sheetName]}
         /\ nextId' = nextId + 1
         /\ UNCHANGED <<salary_records, earnings, deductions,
                        template_earnings, template_deductions>>

HandleFileUploadReadSavingTemplate ==
    /\ pc = "reading"
    /\ \E readable \in BOOLEAN :
          IF ~ readable THEN FileUnreadable /\ UNCHANGED dbVars
          ELSE PlanBuiltSavingTemplate(BuildImportPlan(file))
    /\ pc' = "idle"
    /\ UNCHANGED <<exportedFile, selectedFileName, processedRecords, successToasts,
                   file, si, ri, template, salaryRecord, totalRecordsImported,
                   totalTemplates, uploads, calls, recordsWritten, aborted, upsertHit, removed>>
    /\ UNCHANGED <<backupVars, editVars>>
    /\ UNCHANGED imported
    /\ UNCHANGED <<exportVars, formVars>>

HandleFileUploadRead ==
    /\ pc = "reading"
    /\ \E readable \in BOOLEAN :
          IF ~ readable THEN FileUnreadable
          ELSE PlanBuilt(BuildImportPlan(file))
    /\ pc' = "idle"
    /\ UNCHANGED <<exportedFile, dbVars, selectedFileName, processedRecords, successToasts,
                   file, si, ri, template, salaryRecord, totalRecordsImported,
                   totalTemplates, uploads, calls, recordsWritten, aborted, upsertHit, removed>>
    /\ UNCHANGED <<backupVars, editVars>>
    /\ UNCHANGED imported
    /\ UNCHANGED <<exportVars, formVars>>

(***************************************************************************)
(* The confirmation dialog: Cancel, or "Proceed with import"               *)
(***************************************************************************)
CancelConfirm ==
    /\ showConfirm
    /\ ~ isProcessing
    /\ showConfirm' = FALSE
    /\ planStatus' = "cancelled"
    /\ UNCHANGED <<exportedFile, dbVars, selectedFileName, isProcessing, processedRecords,
                   totalRecords, importPlan, importSummary, toastVars, localVars,
                   uploads, calls, recordsWritten, aborted, upsertHit, removed>>
    /\ UNCHANGED <<backupVars, editVars>>
    /\ UNCHANGED imported
    /\ UNCHANGED <<exportVars, formVars>>

\* an import that starts from a stored plan whether or not the dialog is open
PerformImportUnconfirmed ==
    /\ ~ isProcessing
    /\ importPlan # <<>>
    /\ pc = "idle"
    /\ isProcessing' = TRUE
    /\ showConfirm' = FALSE
    /\ processedRecords' = 0
    /\ totalRecords' = importPlan[1].totalRecordsToImport
    /\ totalRecordsImported' = 0
    /\ totalTemplates' = 0
    /\ si' = 1
    /\ pc' = "sheetLoop"
    /\ planStatus' = "proceeded"
    /\ calls' = 0
    /\ recordsWritten' = 0
    /\ aborted' = FALSE
    /\ upsertHit' = FALSE
    /\ removed' = {}
    /\ UNCHANGED <<exportedFile, dbVars, selectedFileName, importPlan, importSummary, toastVars,
                   file, ri, template, salaryRecord, uploads>>
    /\ UNCHANGED <<backupVars, editVars>>
    /\ imported' = IF imported # <<>> /\ imported[1].plan = importPlan[1] /\ ~ aborted
                   THEN imported ELSE <<>>
    /\ UNCHANGED <<exportVars, formVars>>

\* performImport up to the loop over the sheets
PerformImport ==
    /\ showConfirm
    /\ ~ isProcessing
    /\ importPlan # <<>>
    /\ pc = "idle"
    /\ isProcessing' = TRUE
    /\ showConfirm' = FALSE
    /\ processedRecords' = 0
    /\ totalRecords' = importPlan[1].totalRecordsToImport
    /\ totalRecordsImported' = 0
    /\ totalTemplates' = 0
    /\ si' = 1
    /\ pc' = "sheetLoop"
    /\ planStatus' = "proceeded"
    /\ calls' = 0
    /\ recordsWritten' = 0
    /\ aborted' = FALSE
    /\ upsertHit' = FALSE
    /\ removed' = {}
    /\ UNCHANGED <<exportedFile, dbVars, selectedFileName, importPlan, importSummary, toastVars,
                   file, ri, template, salaryRecord, uploads>>
    /\ UNCHANGED <<backupVars, editVars>>
    /\ imported' = IF imported # <<>> /\ imported[1].plan = importPlan[1] /\ ~ aborted
                   THEN imported ELSE <<>>
    /\ UNCHANGED <<exportVars, formVars>>

(***************************************************************************)
(* performImport: the executor, one action per await                       *)
(***************************************************************************)
sheets == importPlan[1].sheets

records == sheets[si].records

record == records[ri]

\* a catch inside the loop: the error is reported and the next sheet starts
AbortSheetOnly ==
    /\ errorToasts' = errorToasts + 1
    /\ isProcessing' = isProcessing
    /\ pc' = "sheetLoop"
    /\ aborted' = TRUE
    /\ si' = si + 1
    /\ ri' = 0
    /\ template' = 0
    /\ salaryRecord' = 0
    /\ UNCHANGED <<exportedFile, dbVars, selectedFileName, processedRecords, totalRecords,
                   importPlan, showConfirm, importSummary, successToasts, file,
                   totalRecordsImported, totalTemplates, uploads, planStatus,
                   recordsWritten, upsertHit, removed>>
    /\ UNCHANGED <<backupVars, editVars>>

\* a catch block that is not followed by the finally block
AbortWithoutFinally ==
    /\ errorToasts' = errorToasts + 1
    /\ isProcessing' = isProcessing
    /\ pc' = "idle"
    /\ aborted' = TRUE
    /\ si' = 0
    /\ ri' = 0
    /\ template' = 0
    /\ salaryRecord' = 0
    /\ UNCHANGED <<exportedFile, dbVars, selectedFileName, processedRecords, totalRecords,
                   importPlan, showConfirm, importSummary, successToasts, file,
                   totalRecordsImported, totalTemplates, uploads, planStatus,
                   recordsWritten, upsertHit, removed>>
    /\ UNCHANGED <<backupVars, editVars>>

\* catch and finally: one error toast, the processing flag cleared
Abort ==
    /\ errorToasts' = errorToasts + 1
    /\ isProcessing' = FALSE
    /\ pc' = "idle"
    /\ aborted' = TRUE
    /\ si' = 0
    /\ ri' = 0
    /\ template' = 0
    /\ salaryRecord' = 0
    /\ UNCHANGED <<exportedFile, dbVars, selectedFileName, processedRecords, totalRecords,
                   importPlan, showConfirm, importSummary, successToasts, file,
                   totalRecordsImported, totalTemplates, uploads, planStatus,
                   recordsWritten, upsertHit, removed>>
    /\ UNCHANGED <<backupVars, editVars>>

\* the head of the loop over the sheets, and the end of the try block
SheetLoop ==
    /\ pc = "sheetLoop"
    /\ IF si > Len(sheets)
       THEN /\ importSummary' =
                 <<[totalTemplates   |-> totalTemplates,
                    totalRecords     |-> totalRecordsImported,
                    totalSkippedRows |-> importPlan[1].totalSkippedRows,
                    sheets           |-> sheetsFromPlan(importPlan[1])]>>
            /\ successToasts' = successToasts + 1
            /\ isProcessing' = FALSE
            /\ pc' = "idle"
            /\ si' = 0
            /\ imported' = <<[plan |-> importPlan[1], db |-> db]>>
       ELSE /\ IF Len(records) = 0
               THEN si' = si + 1 /\ pc' = "sheetLoop"
               ELSE si' = si /\ pc' = "selectTemplate"
            /\ UNCHANGED <<importSummary, successToasts, isProcessing, imported>>
    /\ UNCHANGED <<exportedFile, dbVars, selectedFileName, processedRecords, totalRecords,
                   importPlan, showConfirm, errorToasts, file, ri, template,
                   salaryRecord, totalRecordsImported, totalTemplates,
                   historyVars>>
    /\ UNCHANGED <<backupVars, editVars>>
    /\ UNCHANGED <<exportVars, formVars>>

\* where the executor goes once the template's old categories are gone
AfterTemplate ==
    IF Len(allEarningsCategories(records)) > 0 THEN "insertTemplateEarnings"
    ELSE IF Len(allDeductionsCategories(records)) > 0 THEN "insertTemplateDeductions"
    ELSE "recordLoop"

\* select ... from organization_templates ... maybeSingle()
SelectTemplate ==
    /\ pc = "selectTemplate"
    /\ \E ok \in BOOLEAN :
          LET found == TemplatesNamed(organization_templates, sheets[si].sheetName)
          IN  IF ~ ok \/ Cardinality(found) > 1
              THEN Abort /\ calls' = calls + 1
              ELSE /\ calls' = calls + 1
                   /\ IF found = {}
                      THEN template' = 0 /\ pc' = "insertTemplate"
                      ELSE /\ template' = (CHOOSE t \in found : TRUE).id
                           /\ pc' = "deleteTemplateEarnings"
                   /\ UNCHANGED <<exportedFile, dbVars, uiVars, toastVars, file, si, ri,
                                  salaryRecord, totalRecordsImported,
                                  totalTemplates, uploads, planStatus,
                                  recordsWritten, aborted, upsertHit, removed>>
    /\ UNCHANGED <<backupVars, editVars>>
    /\ UNCHANGED imported
    /\ UNCHANGED <<exportVars, formVars>>

InsertTemplate ==
    /\ pc = "insertTemplate"
    /\ \E ok \in BOOLEAN :
          IF ~ ok THEN Abort /\ calls' = calls + 1
          ELSE /\ calls' = calls + 1
               /\ organization_templates' = organization_templates \cup
                      {[id |-> nextId, name |-> sheets[si].sheetName]}
               /\ nextId' = nextId + 1
               /\ template' = nextId
               /\ totalTemplates' = totalTemplates + 1
               /\ pc' = AfterTemplate
               /\ ri' = 1
               /\ UNCHANGED <<exportedFile, salary_records, earnings, deductions,
                              template_earnings, template_deductions, uiVars,
                              toastVars, file, si, salaryRecord,
                              totalRecordsImported, uploads, planStatus,
                              recordsWritten, aborted, upsertHit, removed>>
    /\ UNCHANGED <<backupVars, editVars>>
    /\ UNCHANGED imported
    /\ UNCHANGED <<exportVars, formVars>>

DeleteTemplateEarnings ==
    /\ pc = "deleteTemplateEarnings"
    /\ \E ok \in BOOLEAN :
          IF ~ ok THEN Abort /\ calls' = calls + 1
          ELSE /\ calls' = calls + 1
               /\ template_earnings' = DeleteWhere(template_earnings, "template_id", template)
               /\ removed' = removed \cup
                      {<<sheets[si].sheetName, "earnings", template_earnings[i].category>> :
                          i \in {j \in 1..Len(template_earnings) :
                                     template_earnings[j].template_id = template}}
               /\ pc' = "deleteTemplateDeductions"
               /\ UNCHANGED <<exportedFile, salary_records, earnings, deductions,
                              organization_templates, template_deductions, nextId,
                              uiVars, toastVars, file, si, ri, template,
                              salaryRecord, totalRecordsImported, totalTemplates,
                              uploads, planStatus, recordsWritten, aborted, upsertHit>>
    /\ UNCHANGED <<backupVars, editVars>>
    /\ UNCHANGED imported
    /\ UNCHANGED <<exportVars, formVars>>

DeleteTemplateDeductions ==
    /\ pc = "deleteTemplateDeductions"
    /\ \E ok \in BOOLEAN :
          IF ~ ok THEN Abort /\ calls' = calls + 1
          ELSE /\ calls' = calls + 1
               /\ template_deductions' =
                      DeleteWhere(template_deductions, "template_id", template)
               /\ removed' = removed \cup
                      {<<sheets[si].sheetName, "deductions", template_deductions[i].category>> :
                          i \in {j \in 1..Len(template_deductions) :
                                     template_deductions[j].template_id = template}}
               /\ totalTemplates' = totalTemplates + 1
               /\ pc' = AfterTemplate
               /\ ri' = 1
               /\ UNCHANGED <<exportedFile, salary_records, earnings, deductions,
                              organization_templates, template_earnings, nextId,
                              uiVars, toastVars, file, si, template, salaryRecord,
                              totalRecordsImported, uploads, planStatus,
                              recordsWritten, aborted, upsertHit>>
    /\ UNCHANGED <<backupVars, editVars>>
    /\ UNCHANGED imported
    /\ UNCHANGED <<exportVars, formVars>>

InsertTemplateEarnings ==
    /\ pc = "insertTemplateEarnings"
    /\ \E ok \in BOOLEAN :
          IF ~ ok THEN Abort /\ calls' = calls + 1
          ELSE /\ calls' = calls + 1
               /\ template_earnings' = template_earnings \o
                      TemplateCategoryRows(template, allEarningsCategories(records), 1)
               /\ pc' = IF Len(allDeductionsCategories(records)) > 0
                        THEN "insertTemplateDeductions" ELSE "recordLoop"
               /\ UNCHANGED <<exportedFile, salary_records, earnings, deductions,
                              organization_templates, template_deductions, nextId,
                              uiVars, toastVars, file, si, ri, template,
                              salaryRecord, totalRecordsImported, totalTemplates,
                              uploads, planStatus, recordsWritten, aborted, upsertHit, removed>>
    /\ UNCHANGED <<backupVars, editVars>>
    /\ UNCHANGED imported
    /\ UNCHANGED <<exportVars, formVars>>

InsertTemplateDeductions ==
    /\ pc = "insertTemplateDeductions"
    /\ \E ok \in BOOLEAN :
          IF ~ ok THEN Abort /\ calls' = calls + 1
          ELSE /\ calls' = calls + 1
               /\ template_deductions' = template_deductions \o
                      TemplateCategoryRows(template, allDeductionsCategories(records), 1)
               /\ pc' = "recordLoop"
               /\ UNCHANGED <<exportedFile, salary_records, earnings, deductions,
                              organization_templates, template_earnings, nextId,
                              uiVars, toastVars, file, si, ri, template,
                              salaryRecord, totalRecordsImported, totalTemplates,
                              uploads, planStatus, recordsWritten, aborted, upsertHit, removed>>
    /\ UNCHANGED <<backupVars, editVars>>
    /\ UNCHANGED imported
    /\ UNCHANGED <<exportVars, formVars>>

\* the head of the loop over the records of a sheet, with its three guards
RecordLoop ==
    /\ pc = "recordLoop"
    /\ IF ri > Len(records)
       THEN si' = si + 1 /\ ri' = 0 /\ pc' = "sheetLoop"
       ELSE IF SkippedAtWriteTime(record)
       THEN si' = si /\ ri' = ri + 1 /\ pc' = "recordLoop"
       ELSE si' = si /\ ri' = ri /\ pc' = "upsertRecord"
    /\ UNCHANGED <<exportedFile, dbVars, uiVars, toastVars, file, template, salaryRecord,
                   totalRecordsImported, totalTemplates, historyVars>>
    /\ UNCHANGED <<backupVars, editVars>>
    /\ UNCHANGED imported
    /\ UNCHANGED <<exportVars, formVars>>

\* the end of the body of the record loop
RecordDone ==
    /\ recordsWritten' = recordsWritten + 1
    /\ ri' = ri + 1
    /\ pc' = "recordLoop"

\* upsert into salary_records on conflict (user_id, month, year), then the
\* two counters
UpsertRecord ==
    /\ pc = "upsertRecord"
    /\ \E ok \in BOOLEAN :
          IF ~ ok \/ ~ ChecksPass(record.month, record.year)
          THEN Abort /\ calls' = calls + 1
          ELSE /\ calls' = calls + 1
               /\ salary_records' = UpsertSalaryRecord(salary_records, record, nextId)
               /\ salaryRecord' = UpsertedId(salary_records, record, nextId)
               /\ nextId' = IF ConflictingRows(salary_records, record.month, record.year) = {}
                            THEN nextId + 1 ELSE nextId
               /\ upsertHit' = (ConflictingRows(salary_records, record.month, record.year) # {})
               /\ totalRecordsImported' = totalRecordsImported + 1
               /\ processedRecords' = processedRecords + 1
               /\ IF Len(record.earnings) > 0
                  THEN pc' = "insertEarnings" /\ UNCHANGED <<ri, recordsWritten>>
                  ELSE IF Len(record.deductions) > 0
                  THEN pc' = "insertDeductions" /\ UNCHANGED <<ri, recordsWritten>>
                  ELSE RecordDone
               /\ UNCHANGED <<exportedFile, earnings, deductions, organization_templates,
                              template_earnings, template_deductions,
                              selectedFileName, isProcessing, totalRecords,
                              importPlan, showConfirm, importSummary, toastVars,
                              file, si, template, totalTemplates, uploads,
                              planStatus, aborted, removed>>
    /\ UNCHANGED <<backupVars, editVars>>
    /\ UNCHANGED imported
    /\ UNCHANGED <<exportVars, formVars>>

InsertEarnings ==
    /\ pc = "insertEarnings"
    /\ \E ok \in BOOLEAN :
          IF ~ ok THEN Abort /\ calls' = calls + 1
          ELSE /\ calls' = calls + 1
               /\ earnings' = earnings \o LineItemRows(salaryRecord, record.earnings, 1)
               /\ IF Len(record.deductions) > 0
                  THEN pc' = "insertDeductions" /\ UNCHANGED <<ri, recordsWritten>>
                  ELSE RecordDone
               /\ UNCHANGED <<exportedFile, salary_records, deductions, organization_templates,
                              template_earnings, template_deductions, nextId,
                              uiVars, toastVars, file, si, template, salaryRecord,
                              totalRecordsImported, totalTemplates, uploads,
                              planStatus, aborted, upsertHit, removed>>
    /\ UNCHANGED <<backupVars, editVars>>
    /\ UNCHANGED imported
    /\ UNCHANGED <<exportVars, formVars>>

InsertDeductions ==
    /\ pc = "insertDeductions"
    /\ \E ok \in BOOLEAN :
          IF ~ ok THEN Abort /\ calls' = calls + 1
          ELSE /\ calls' = calls + 1
               /\ deductions' = deductions \o LineItemRows(salaryRecord, record.deductions, 1)
               /\ RecordDone
               /\ UNCHANGED <<exportedFile, salary_records, earnings, organization_templates,
                              template_earnings, template_deductions, nextId,
                              uiVars, toastVars, file, si, template, salaryRecord,
                              totalRecordsImported, totalTemplates, uploads,
                              planStatus, aborted, upsertHit, removed>>
    /\ UNCHANGED <<backupVars, editVars>>
    /\ UNCHANGED imported
    /\ UNCHANGED <<exportVars, formVars>>

Next ==
    \/ \E workbook \in Workbooks : HandleFileUploadStart(workbook)
    \/ HandleFileUploadRead
    \/ CancelConfirm
    \/ PerformImport
    \/ SheetLoop
    \/ SelectTemplate
    \/ InsertTemplate
    \/ DeleteTemplateEarnings
    \/ DeleteTemplateDeductions
    \/ InsertTemplateEarnings
    \/ InsertTemplateDeductions
    \/ RecordLoop
    \/ UpsertRecord
    \/ InsertEarnings
    \/ InsertDeductions

Spec == Init /\ [][Next]_vars

\* the continuations of performImport: each of them runs once the call it
\* awaits has returned, and every call is taken to return (with a result or
\* with an error)
ExecutorStep ==
    \/ SheetLoop
    \/ SelectTemplate
    \/ InsertTemplate
    \/ DeleteTemplateEarnings
    \/ DeleteTemplateDeductions
    \/ InsertTemplateEarnings
    \/ InsertTemplateDeductions
    \/ RecordLoop
    \/ UpsertRecord
    \/ InsertEarnings
    \/ InsertDeductions

SpecTermination == Init /\ [][Next]_vars /\ WF_vars(ExecutorStep)

(***************************************************************************)
(* handleExportToExcel (BulkImport.tsx), with no year filter and the rare  *)
(* categories included                                                     *)
(***************************************************************************)
MONTHS ==
    <<"January", "February", "March", "April", "May", "June",
      "July", "August", "September", "October", "November", "December">>

\* the characters of the inputs in the order of their UTF-16 code units
CodeOrder == " 0123456789ABCDEFGHIJKLMNOPQRSTUVWXYZabcdefghijklmnopqrstuvwxyz"

\* the order of Array.prototype.sort() on strings
RECURSIVE StringLess(_, _)
StringLess(a, b) ==
    IF Len(b) = 0 THEN FALSE
    ELSE IF Len(a) = 0 THEN TRUE
    ELSE LET ca == IndexIn(CharAt(a, 1), CodeOrder)
             cb == IndexIn(CharAt(b, 1), CodeOrder)
         IN  IF ca # cb THEN ca < cb
             ELSE StringLess(SubSeq(a, 2, Len(a)), SubSeq(b, 2, Len(b)))

normalizeOrgName(rawOrg) ==
    LET trimmed == trim(rawOrg)
        upper   == toUpperCase(trimmed)
    IN  IF Len(trimmed) = 0 THEN "Not specified"
        ELSE IF includes(upper, "TATA CONSULTANCY") \/ upper = "TCS" THEN "TCS"
        ELSE IF includes(upper, "NATWEST") \/ includes(upper, "NATIONAL WESTMINSTER")
            THEN "NATWEST"
        ELSE IF includes(upper, "RBS") \/ includes(upper, "ROYAL BANK OF SCOTLAND")
            THEN "RBS"
        ELSE IF includes(upper, "CITI") \/ includes(upper, "CITIBANK") THEN "CITI"
        ELSE trimmed

\* a salary record with its nested earnings and deductions, as the select
\* of the export returns it
Nested(r) ==
    r @@
    [earnings   |-> RowsOf(earnings, "salary_record_id", r.id),
     deductions |-> RowsOf(deductions, "salary_record_id", r.id)]

\* the orders in which the select may return the rows
Orderings(rows) ==
    {seq \in [1..Cardinality(rows) -> rows] :
        \A i, j \in 1..Cardinality(rows) : i # j => seq[i] # seq[j]}

\* the keys of orgMap in insertion order
RECURSIVE OrgNames(_, _, _)
OrgNames(seen, data, i) ==
    IF i > Len(data) THEN seen
    ELSE LET orgName == normalizeOrgName(data[i].organization)
         IN  OrgNames(IF InSeq(orgName, seen) THEN seen ELSE Append(seen, orgName),
                      data, i + 1)

OrgRecords(data, orgName) ==
    SelectSeq(data, LAMBDA r : normalizeOrgName(r.organization) = orgName)

\* the records of a sheet in the order of the export: by year, then by month
RecordBefore(a, b) ==
    IF a.year = b.year THEN a.month < b.month ELSE a.year < b.year

\* (items).find(e => e.category = cat): entry ? Number(entry.amount) : 0
AmountOf(items, cat) ==
    IF \E i \in 1..Len(items) : items[i].category = cat
    THEN items[CHOOSE i \in 1..Len(items) :
                   /\ items[i].category = cat
                   /\ \A j \in 1..(i - 1) : items[j].category # cat].amount
    ELSE 0

ExportHeaders(earningCategories, deductionCategories) ==
    <<"Month Year">> \o earningCategories \o deductionCategories
        \o <<"Total Earnings", "Total Deductions", "Net Pay">>

monthLabel(r) ==
    toUpperCase(SubSeq(MONTHS[r.month], 1, 3)) \o " " \o NumberToString(r.year)

\* one exported row, as the codec reads it back: a cell under every header
ExportRow(r, earningCategories, deductionCategories) ==
    [h \in SeqToSet(ExportHeaders(earningCategories, deductionCategories)) |->
        IF h = "Month Year" THEN StrCell(monthLabel(r))
        ELSE IF h = "Total Earnings" THEN NumCell(r.total_earnings)
        ELSE IF h = "Total Deductions" THEN NumCell(r.total_deductions)
        ELSE IF h = "Net Pay" THEN NumCell(r.net_salary)
        ELSE IF InSeq(h, earningCategories) THEN NumCell(AmountOf(r.earnings, h))
        ELSE NumCell(AmountOf(r.deductions, h))]

RECURSIVE ExportRows(_, _, _, _)
ExportRows(recs, earningCategories, deductionCategories, i) ==
    IF i > Len(recs) THEN <<>>
    ELSE <<ExportRow(recs[i], earningCategories, deductionCategories)>>
         \o ExportRows(recs, earningCategories, deductionCategories, i + 1)

\* orgName.substring(0, 31) || "Organisation"
safeSheetName(orgName) ==
    IF Len(orgName) = 0 THEN "Organisation"
    ELSE SubSeq(orgName, 1, IF Len(orgName) < 31 THEN Len(orgName) ELSE 31)

ExportSheet(data, orgName) ==
    LET recs == OrgRecords(data, orgName)
        earningCategories ==
            SortSeq(CollectCategories(<<>>, recs, "earnings", 1), StringLess)
        deductionCategories ==
            SortSeq(CollectCategories(<<>>, recs, "deductions", 1), StringLess)
    IN  [sheetName |-> safeSheetName(orgName),
         cols      |-> ExportHeaders(earningCategories, deductionCategories),
         rows      |-> ExportRows(SortSeq(recs, RecordBefore),
                                  earningCategories, deductionCategories, 1)]

RECURSIVE ExportSheets(_, _, _)
ExportSheets(data, orgNames, i) ==
    IF i > Len(orgNames) THEN <<>>
    ELSE <<ExportSheet(data, orgNames[i])>> \o ExportSheets(data, orgNames, i + 1)

ExportWorkbook(data) ==
    [name   |-> "salary-data-export.xlsx",
     sheets |-> ExportSheets(data, OrgNames(<<>>, data, 1), 1)]

\* one export per run, and a cap on the toast counter
HandleExportToExcel ==
    /\ pc = "idle"
    /\ ~ isProcessing
    /\ ~ showConfirm
    /\ exportedFile = NoFile
    /\ errorToasts < MaxImports
    /\ \E ok \in BOOLEAN :
          IF ~ ok \/ salary_records = {}
          THEN /\ errorToasts' = errorToasts + 1
               /\ UNCHANGED <<successToasts, exportedFile>>
          ELSE /\ \E data \in Orderings({Nested(r) : r \in salary_records}) :
                      exportedFile' = ExportWorkbook(data)
               /\ successToasts' = successToasts + 1
               /\ UNCHANGED errorToasts
    /\ UNCHANGED <<dbVars, uiVars, localVars, historyVars>>
    /\ UNCHANGED <<backupVars, editVars>>
    /\ UNCHANGED imported
    /\ UNCHANGED <<exportVars, formVars>>

(***************************************************************************)
(* Export, then selection of the exported file: the accounts it starts in  *)
(***************************************************************************)
ExportOrganizations == {"TCS", "ACME"}

ExportMonths == {<<1, 2025>>, <<12, 2024>>}

ExportEarnings ==
    {<<[category |-> "Basic Salary", amount |-> 100]>>,
     <<[category |-> "HRA", amount |-> 50], [category |-> "Basic Salary", amount |-> 100]>>}

ExportDeductions == {<<>>, <<[category |-> "Income Tax", amount |-> 10]>>}

ExportNetSalaries == {0, 90}

\* the salary records an account may hold, with their line items
ExportRecordPool ==
    {[month |-> k[1], year |-> k[2], organization |-> o, earnings |-> e,
      deductions |-> d, totalEarnings |-> 150, totalDeductions |-> 10, netSalary |-> n] :
        k \in ExportMonths, o \in ExportOrganizations, e \in ExportEarnings,
        d \in ExportDeductions, n \in ExportNetSalaries}

\* the account after the records of an import plan were written to an
\* empty account, one record per month
InitExportAccount(first, second) ==
    /\ salary_records = {[id |-> 1] @@ UpsertFields(first)}
            \cup (IF second.month = first.month THEN {}
                  ELSE {[id |-> 2] @@ UpsertFields(second)})
    /\ earnings = LineItemRows(1, first.earnings, 1)
            \o (IF second.month = first.month THEN <<>>
                ELSE LineItemRows(2, second.earnings, 1))
    /\ deductions = LineItemRows(1, first.deductions, 1)
            \o (IF second.month = first.month THEN <<>>
                ELSE LineItemRows(2, second.deductions, 1))
    /\ nextId = 3

InitRoundTrip ==
    /\ \E first, second \in ExportRecordPool : InitExportAccount(first, second)
    /\ organization_templates = {}
    /\ template_earnings = <<>>
    /\ template_deductions = <<>>
    /\ selectedFileName = ""
    /\ isProcessing = FALSE
    /\ processedRecords = 0
    /\ totalRecords = 0
    /\ importPlan = <<>>
    /\ showConfirm = FALSE
    /\ importSummary = <<>>
    /\ errorToasts = 0
    /\ successToasts = 0
    /\ pc = "idle"
    /\ file = NoFile
    /\ exportedFile = NoFile
    /\ si = 0
    /\ ri = 0
    /\ template = 0
    /\ salaryRecord = 0
    /\ totalRecordsImported = 0
    /\ totalTemplates = 0
    /\ uploads = 0
    /\ planStatus = "none"
    /\ calls = 0
    /\ recordsWritten = 0
    /\ aborted = FALSE
    /\ upsertHit = FALSE
    /\ removed = {}
    /\ imported = <<>>
    /\ backupDownload = <<>>
    /\ exports = 0
    /\ FormMounted
    /\ BackupIdle
    /\ EditClosed

SelectExportedFile ==
    /\ exportedFile # NoFile
    /\ errorToasts = 0
    /\ HandleFileUploadStart(exportedFile)

NextRoundTrip ==
    \/ HandleExportToExcel
    \/ SelectExportedFile
    \/ HandleFileUploadRead

SpecRoundTrip == InitRoundTrip /\ [][NextRoundTrip]_vars

(***************************************************************************)
(* processSheet on its own: one-sheet workbooks whose first row holds any  *)
(* combination of cells, read by handleFileUpload                          *)
(***************************************************************************)
ParseMonthYearHeaders == {"Month Year", "Period"}

ParseMonthCells == {StrCell("JAN 2025"), StrCell("FEB 2031"), NumCell(2025)}

ParseAmountCells == {NumCell(0), NumCell(7), StrCell("n/a"), StrCell("1,000")}

ParseOrganizations == {"TCS", "ACME"}

ParseCols(monthYearHeader) ==
    <<monthYearHeader, "Basic Salary", "Income Tax",
      "Total Earnings", "Total Deductions", "Net Salary">>

ParseRow(monthYearHeader, monthYear, basic, tax, totalE, totalD, net) ==
    (monthYearHeader :> monthYear) @@ ("Basic Salary" :> basic) @@
    ("Income Tax" :> tax) @@ ("Total Earnings" :> totalE) @@
    ("Total Deductions" :> totalD) @@ ("Net Salary" :> net)

OneSheetWorkbook(sheetName, cols, rows) ==
    [name   |-> "sheet.xlsx",
     sheets |-> <<[sheetName |-> sheetName, cols |-> cols, rows |-> rows]>>]

\* every combination of cells under the six columns, in one data row
CellWorkbooks ==
    {OneSheetWorkbook(org, ParseCols(h),
                      <<ParseRow(h, my, basic, tax, totalE, totalD, net)>>) :
        org \in ParseOrganizations, h \in ParseMonthYearHeaders,
        my \in ParseMonthCells, basic \in ParseAmountCells, tax \in ParseAmountCells,
        totalE \in ParseAmountCells, totalD \in ParseAmountCells,
        net \in ParseAmountCells}

\* one category column: headers of the registries and headers outside them
ClassifyOrganizations == {"TCS", "NATWEST", "ACME"}

ClassifyHeaders ==
    {"Basic Salary", "Conveyance Taxable", "Share SIS Award", "Provident Fund",
     "Labour Welfare Fund", "Night Shift Bonus", "Esi", "Gym"}

ClassifyCells ==
    {NumCell(7), NumCell(0), StrCell(""), StrCell("n/a"), StrCell("1,000")}

ClassifyWorkbooks ==
    {OneSheetWorkbook(org, <<"Month Year", h>>,
                      <<("Month Year" :> StrCell("JAN 2025")) @@ (h :> c)>>) :
        org \in ClassifyOrganizations, h \in ClassifyHeaders, c \in ClassifyCells}

\* sheets of several data rows; a blank cell leaves its key out of the row
RowValid ==
    ParseRow("Month Year", StrCell("MAR 2025"), NumCell(7), NumCell(0),
             NumCell(7), NumCell(0), NumCell(7))

RowEmptyMonth ==
    ParseRow("Month Year", StrCell(""), NumCell(7), NumCell(0),
             NumCell(7), NumCell(0), NumCell(7))

RowBlankMonth ==
    ("Basic Salary" :> NumCell(7)) @@ ("Income Tax" :> NumCell(0)) @@
    ("Total Earnings" :> NumCell(7)) @@ ("Total Deductions" :> NumCell(0)) @@
    ("Net Salary" :> NumCell(7))

RowBadMonth ==
    ParseRow("Month Year", StrCell("Foo 2025"), NumCell(7), NumCell(0),
             NumCell(7), NumCell(0), NumCell(7))

ParseRowPool == {RowValid, RowEmptyMonth, RowBlankMonth, RowBadMonth}

\* data rows per sheet of the row workbooks
MaxRows == 2

RowSequences ==
    UNION {[1..n -> ParseRowPool] : n \in 1..MaxRows}

RowWorkbooks ==
    {OneSheetWorkbook("TCS", ParseCols("Month Year"), rows) : rows \in RowSequences}

\* workbooks of several sheets: a cover page without data rows, a sheet
\* with a record and an invalid row, a sheet with nothing but an invalid row
SheetPool ==
    {[sheetName |-> "Cover", cols |-> <<>>, rows |-> <<>>],
     [sheetName |-> "TCS", cols |-> ParseCols("Month Year"),
      rows |-> <<RowValid, RowEmptyMonth>>],
     [sheetName |-> "ACME", cols |-> ParseCols("Month Year"), rows |-> <<RowBadMonth>>],
     [sheetName |-> "Notes", cols |-> <<>>, rows |-> <<>>]}

\* sheets per workbook of the sheet workbooks
MaxSheets == 2

SheetSequences ==
    UNION {{q \in [1..n -> SheetPool] :
               \A i, j \in 1..n : i # j => q[i].sheetName # q[j].sheetName} :
           n \in 1..MaxSheets}

SheetWorkbooks == {[name |-> "book.xlsx", sheets |-> q] : q \in SheetSequences}

\* the worked example of a TCS payslip row
ExampleCols ==
    <<"Month Year", "Basic Salary", "HRA", "Income Tax", "Provident Fund",
      "Total Earnings", "Total Deductions", "Net Salary">>

ExampleRow ==
    ("Month Year" :> StrCell("JAN 2025")) @@ ("Basic Salary" :> NumCell(80000)) @@
    ("HRA" :> NumCell(32000)) @@ ("Income Tax" :> NumCell(18000)) @@
    ("Provident Fund" :> NumCell(9600)) @@ ("Total Earnings" :> NumCell(112000)) @@
    ("Total Deductions" :> NumCell(27600)) @@ ("Net Salary" :> NumCell(84400))

ExampleWorkbook == OneSheetWorkbook("TCS", ExampleCols, <<ExampleRow>>)

\* a sheet whose first data row has a blank HRA cell and whose second has not
SparseWorkbook ==
    OneSheetWorkbook("TCS", ExampleCols,
        <<("Month Year" :> StrCell("JAN 2025")) @@ ("Basic Salary" :> NumCell(7)) @@
          ("Total Earnings" :> NumCell(7)) @@ ("Net Salary" :> NumCell(7)),
          ("Month Year" :> StrCell("MAR 2025")) @@ ("Basic Salary" :> NumCell(7)) @@
          ("HRA" :> NumCell(3)) @@ ("Total Earnings" :> NumCell(10)) @@
          ("Net Salary" :> NumCell(10))>>)

ParseWorkbooks ==
    CellWorkbooks \cup ClassifyWorkbooks \cup RowWorkbooks \cup SheetWorkbooks
        \cup {ExampleWorkbook, SparseWorkbook}

\* a workbook was selected in an empty account and is about to be read
InitParse ==
    /\ salary_records = {}
    /\ earnings = <<>>
    /\ deductions = <<>>
    /\ organization_templates = {}
    /\ template_earnings = <<>>
    /\ template_deductions = <<>>
    /\ nextId = 1
    /\ file \in ParseWorkbooks
    /\ selectedFileName = file.name
    /\ isProcessing = TRUE
    /\ processedRecords = 0
    /\ totalRecords = 0
    /\ importPlan = <<>>
    /\ showConfirm = FALSE
    /\ importSummary = <<>>
    /\ errorToasts = 0
    /\ successToasts = 0
    /\ pc = "reading"
    /\ exportedFile = NoFile
    /\ si = 0
    /\ ri = 0
    /\ template = 0
    /\ salaryRecord = 0
    /\ totalRecordsImported = 0
    /\ totalTemplates = 0
    /\ uploads = 1
    /\ planStatus = "none"
    /\ calls = 0
    /\ recordsWritten = 0
    /\ aborted = FALSE
    /\ upsertHit = FALSE
    /\ removed = {}
    /\ imported = <<>>
    /\ backupDownload = <<>>
    /\ exports = 0
    /\ FormMounted
    /\ BackupIdle
    /\ EditClosed

NextParse == HandleFileUploadRead

SpecParse == InitParse /\ [][NextParse]_vars

(***************************************************************************)
(* Backup & Restore: handleImportBackupFile and performBackupImport        *)
(***************************************************************************)
\* backup file selections allowed in one run of the model
MaxRestores == 2

\* 10 * 1024 * 1024: 10 MB
MAX_FILE_SIZE == 10485760

\* every table of the account
AllTables ==
    <<salary_records, earnings, deductions,
      organization_templates, template_earnings, template_deductions,
      employment_history, budget_history, profiles>>

\* Array.isArray(x) ? x.length : 0, and the profile count
BackupCounts(data) ==
    [totalTemplates         |-> Len(data.organizationTemplates),
     totalSalaryRecords     |-> Len(data.salaryRecords),
     totalEmploymentHistory |-> Len(data.employmentHistory),
     totalProfileEntries    |-> IF data.profile # <<>> THEN 1 ELSE 0,
     totalBudgetHistory     |-> Len(data.budgetHistory),
     totalImportItems       |-> Len(data.organizationTemplates) + Len(data.salaryRecords)
                                + Len(data.employmentHistory)
                                + (IF data.profile # <<>> THEN 1 ELSE 0)
                                + Len(data.budgetHistory)]

\* the checks of handleImportBackupFile accept only version 1
AcceptsAnyVersion(f) ==
    /\ f.size <= MAX_FILE_SIZE
    /\ f.parses
    /\ f.isObject

\* the size check, JSON.parse and the check of the parsed value
AcceptsBackupFile(f) ==
    /\ f.size <= MAX_FILE_SIZE
    /\ f.parses
    /\ f.isObject
    /\ f.version = 1

\* the parsed value of the file: what pendingBackupData holds
BackupDataOf(f) ==
    [organizationTemplates |-> f.organizationTemplates,
     salaryRecords         |-> f.salaryRecords,
     employmentHistory     |-> f.employmentHistory,
     budgetHistory         |-> f.budgetHistory,
     profile               |-> f.profile]

\* wipe_all_salary_data(): the six tables it empties for the one user
WipeAllSalaryData ==
    /\ earnings' = <<>>
    /\ deductions' = <<>>
    /\ template_earnings' = <<>>
    /\ template_deductions' = <<>>
    /\ salary_records' = {}
    /\ organization_templates' = {}

\* the fields the restore sends for a salary record of the backup
RestoredRecord(rec, freshId) ==
    [id               |-> freshId,
     organization     |-> rec.organization,
     month            |-> rec.month,
     year             |-> rec.year,
     total_earnings   |-> rec.total_earnings,
     total_deductions |-> rec.total_deductions,
     net_salary       |-> rec.net_salary,
     gross_salary     |-> rec.gross_salary]

RECURSIVE RestoredCategoryRows(_, _, _)
RestoredCategoryRows(templateId, rows, i) ==
    IF i > Len(rows) THEN <<>>
    ELSE <<[template_id |-> templateId, category |-> rows[i].category]>>
         \o RestoredCategoryRows(templateId, rows, i + 1)

(***************************************************************************)
(* performBackupImport: the call that follows a call that succeeded.  A    *)
(* position of "idle" is the end of the try block.                         *)
(***************************************************************************)
EnterProfile(data) ==
    IF data.profile # <<>> THEN [pc |-> "restoreProfile", bi |-> 1]
    ELSE [pc |-> "idle", bi |-> 0]

EnterBudgetHistory(data, i) ==
    IF i <= Len(data.budgetHistory) THEN [pc |-> "restoreBudgetHistory", bi |-> i]
    ELSE EnterProfile(data)

EnterEmploymentHistory(data, i) ==
    IF i <= Len(data.employmentHistory) THEN [pc |-> "restoreEmploymentHistory", bi |-> i]
    ELSE EnterBudgetHistory(data, 1)

EnterSalaryRecords(data, i) ==
    IF i <= Len(data.salaryRecords) THEN [pc |-> "restoreSalaryRecord", bi |-> i]
    ELSE EnterEmploymentHistory(data, 1)

AfterRestoreEarnings(data, i) ==
    IF Len(data.salaryRecords[i].deductions) > 0
    THEN [pc |-> "restoreDeductions", bi |-> i]
    ELSE EnterSalaryRecords(data, i + 1)

AfterRestoreSalaryRecord(data, i) ==
    IF Len(data.salaryRecords[i].earnings) > 0
    THEN [pc |-> "restoreEarnings", bi |-> i]
    ELSE AfterRestoreEarnings(data, i)

\* a restore that goes from the wipe straight to the employment history
SkipToEmploymentHistory(data, i) == EnterEmploymentHistory(data, 1)

EnterTemplates(data, i) ==
    IF i <= Len(data.organizationTemplates) THEN [pc |-> "restoreTemplate", bi |-> i]
    ELSE EnterSalaryRecords(data, 1)

AfterRestoreTemplateEarnings(data, i) ==
    IF Len(data.organizationTemplates[i].template_deductions) > 0
    THEN [pc |-> "restoreTemplateDeductions", bi |-> i]
    ELSE EnterTemplates(data, i + 1)

AfterRestoreTemplate(data, i) ==
    IF Len(data.organizationTemplates[i].template_earnings) > 0
    THEN [pc |-> "restoreTemplateEarnings", bi |-> i]
    ELSE AfterRestoreTemplateEarnings(data, i)

\* the calls that do not complete a top-level entity of the backup
LineItemCalls ==
    {"restoreTemplateEarnings", "restoreTemplateDeductions",
     "restoreEarnings", "restoreDeductions"}

\* the finally block
BackupFinally ==
    /\ isBackupImporting' = FALSE
    /\ backupImportTotal' = 0
    /\ backupImportProcessed' = 0
    /\ pendingBackupData' = <<>>
    /\ pendingBackupCounts' = <<>>

\* a catch block that is not followed by the finally block
BackupAbortWithoutFinally ==
    /\ errorToasts' = errorToasts + 1
    /\ pc' = "idle"
    /\ bi' = 0
    /\ backupStatus' = "failed"
    /\ UNCHANGED <<successToasts, backupImportSummary, isBackupImporting,
                   backupImportTotal, backupImportProcessed, pendingBackupData,
                   pendingBackupCounts>>

\* a call failed: the catch block, then the finally block
BackupAbort ==
    /\ errorToasts' = errorToasts + 1
    /\ BackupFinally
    /\ pc' = "idle"
    /\ bi' = 0
    /\ backupStatus' = "failed"
    /\ UNCHANGED <<successToasts, backupImportSummary>>

\* a restore that counts every successful insert, line items included
BackupProceedCountingCalls(pos, entity) ==
    /\ pc' = pos.pc
    /\ bi' = pos.bi
    /\ IF pos.pc = "idle"
       THEN /\ backupImportSummary' =
                 <<[totalTemplates         |-> pendingBackupCounts[1].totalTemplates,
                    totalSalaryRecords     |-> pendingBackupCounts[1].totalSalaryRecords,
                    totalEmploymentHistory |-> pendingBackupCounts[1].totalEmploymentHistory,
                    totalProfileEntries    |-> pendingBackupCounts[1].totalProfileEntries,
                    totalBudgetHistory     |-> pendingBackupCounts[1].totalBudgetHistory]>>
            /\ successToasts' = successToasts + 1
            /\ BackupFinally
            /\ backupStatus' = "restored"
       ELSE /\ backupImportProcessed' =
                 IF entity
                 THEN backupImportProcessed + 1 ELSE backupImportProcessed
            /\ UNCHANGED <<backupImportSummary, successToasts, isBackupImporting,
                           backupImportTotal, pendingBackupData, pendingBackupCounts,
                           backupStatus>>
    /\ UNCHANGED errorToasts

\* a call succeeded: on to the call at position pos, or to the end of the
\* try block; entity tells whether the call was an insert of the backup
BackupProceed(pos, entity) ==
    /\ pc' = pos.pc
    /\ bi' = pos.bi
    /\ IF pos.pc = "idle"
       THEN /\ backupImportSummary' =
                 <<[totalTemplates         |-> pendingBackupCounts[1].totalTemplates,
                    totalSalaryRecords     |-> pendingBackupCounts[1].totalSalaryRecords,
                    totalEmploymentHistory |-> pendingBackupCounts[1].totalEmploymentHistory,
                    totalProfileEntries    |-> pendingBackupCounts[1].totalProfileEntries,
                    totalBudgetHistory     |-> pendingBackupCounts[1].totalBudgetHistory]>>
            /\ successToasts' = successToasts + 1
            /\ BackupFinally
            /\ backupStatus' = "restored"
       ELSE /\ backupImportProcessed' =
                 IF entity /\ pos.pc \notin LineItemCalls
                 THEN backupImportProcessed + 1 ELSE backupImportProcessed
            /\ UNCHANGED <<backupImportSummary, successToasts, isBackupImporting,
                           backupImportTotal, pendingBackupData, pendingBackupCounts,
                           backupStatus>>
    /\ UNCHANGED errorToasts

\* the frame of every call of the restore
RestoreFrame ==
    UNCHANGED <<uiVars, file, si, ri, template, totalRecordsImported,
                totalTemplates, exportedFile, historyVars, editVars,
                backupConfirmOpen, backupFile, accountBefore, restores>>

\* the call is logged, then it fails or succeeds
RestoreCall(name, ok) ==
    /\ restoreCalls' = Append(restoreCalls, [call |-> name, i |-> bi, ok |-> ok])
    /\ RestoreFrame

(***************************************************************************)
(* handleImportBackupFile                                                  *)
(***************************************************************************)
HandleImportBackupFile(f) ==
    /\ pc = "idle"
    /\ ~ isBackupImporting
    /\ ~ backupConfirmOpen
    /\ restores < MaxRestores
    /\ restores' = restores + 1
    /\ backupFile' = <<f>>
    /\ accountBefore' = <<AllTables>>
    /\ restoreCalls' = <<>>
    /\ IF AcceptsBackupFile(f)
       THEN /\ pendingBackupData' = <<BackupDataOf(f)>>
            /\ pendingBackupCounts' = <<BackupCounts(BackupDataOf(f))>>
            /\ backupImportSummary' = <<>>
            /\ backupConfirmOpen' = TRUE
            /\ backupStatus' = "shown"
            /\ UNCHANGED errorToasts
       ELSE /\ errorToasts' = errorToasts + 1
            /\ backupStatus' = "rejected"
            /\ UNCHANGED <<pendingBackupData, pendingBackupCounts,
                           backupImportSummary, backupConfirmOpen>>
    /\ UNCHANGED <<dbVars, backupDb, uiVars, successToasts, localVars, exportedFile,
                   historyVars, editVars, isBackupImporting, backupImportTotal,
                   backupImportProcessed, bi>>
    /\ UNCHANGED imported
    /\ UNCHANGED <<exportVars, formVars>>

\* Cancel in the "Confirm backup import" dialog
CancelBackupConfirm ==
    /\ backupConfirmOpen
    /\ backupConfirmOpen' = FALSE
    /\ backupStatus' = "cancelled"
    /\ UNCHANGED <<dbVars, backupDb, uiVars, toastVars, localVars, exportedFile,
                   historyVars, editVars, pendingBackupData, pendingBackupCounts,
                   isBackupImporting, backupImportTotal, backupImportProcessed,
                   backupImportSummary, bi, backupFile, accountBefore, restoreCalls,
                   restores>>
    /\ UNCHANGED imported
    /\ UNCHANGED <<exportVars, formVars>>

(***************************************************************************)
(* performBackupImport: "Yes, wipe & restore", then one action per call    *)
(***************************************************************************)
PerformBackupImport ==
    /\ backupConfirmOpen
    /\ pendingBackupData # <<>>
    /\ pendingBackupCounts # <<>>
    /\ isBackupImporting' = TRUE
    /\ backupImportTotal' = pendingBackupCounts[1].totalImportItems
    /\ backupImportProcessed' = 0
    /\ backupConfirmOpen' = FALSE
    /\ pc' = "wipe"
    /\ bi' = 0
    /\ backupStatus' = "confirmed"
    /\ UNCHANGED <<dbVars, backupDb, uiVars, toastVars, file, si, ri, template,
                   salaryRecord, totalRecordsImported, totalTemplates, exportedFile,
                   historyVars, editVars, pendingBackupData, pendingBackupCounts,
                   backupImportSummary, backupFile, accountBefore, restoreCalls,
                   restores>>
    /\ UNCHANGED imported
    /\ UNCHANGED <<exportVars, formVars>>

Wipe ==
    /\ pc = "wipe"
    /\ \E ok \in BOOLEAN :
          /\ RestoreCall("wipe_all_salary_data", ok)
          /\ IF ok
             THEN /\ WipeAllSalaryData
                  /\ BackupProceed([pc |-> "deleteBudgetHistory", bi |-> 0], FALSE)
             ELSE /\ BackupAbort
                  /\ UNCHANGED db
    /\ UNCHANGED <<nextId, salaryRecord, backupDb>>
    /\ UNCHANGED imported
    /\ UNCHANGED <<exportVars, formVars>>

DeleteBudgetHistory ==
    /\ pc = "deleteBudgetHistory"
    /\ \E ok \in BOOLEAN :
          /\ RestoreCall("budget_history.delete", ok)
          /\ IF ok
             THEN /\ budget_history' = <<>>
                  /\ BackupProceed(EnterTemplates(pendingBackupData[1], 1), FALSE)
             ELSE /\ BackupAbort
                  /\ UNCHANGED budget_history
    /\ UNCHANGED <<dbVars, salaryRecord, employment_history, profiles>>
    /\ UNCHANGED imported
    /\ UNCHANGED <<exportVars, formVars>>

\* organization_templates_pkey: the insert sends the id of the backup
RestoreTemplate ==
    /\ pc = "restoreTemplate"
    /\ \E ok \in IF \E t \in organization_templates :
                       t.id = pendingBackupData[1].organizationTemplates[bi].id
                 THEN {FALSE} ELSE BOOLEAN :
          /\ RestoreCall("organization_templates.insert", ok)
          /\ IF ok
             THEN /\ organization_templates' = organization_templates \cup
                         {[id   |-> pendingBackupData[1].organizationTemplates[bi].id,
                           name |-> pendingBackupData[1].organizationTemplates[bi].name]}
                  /\ BackupProceed(AfterRestoreTemplate(pendingBackupData[1], bi), TRUE)
             ELSE /\ BackupAbort
                  /\ UNCHANGED organization_templates
    /\ UNCHANGED <<salary_records, earnings, deductions, template_earnings,
                   template_deductions, nextId, salaryRecord, backupDb>>
    /\ UNCHANGED imported
    /\ UNCHANGED <<exportVars, formVars>>

RestoreTemplateEarnings ==
    /\ pc = "restoreTemplateEarnings"
    /\ \E ok \in BOOLEAN :
          /\ RestoreCall("template_earnings.insert", ok)
          /\ IF ok
             THEN /\ template_earnings' = template_earnings \o
                         RestoredCategoryRows(
                             pendingBackupData[1].organizationTemplates[bi].id,
                             pendingBackupData[1].organizationTemplates[bi].template_earnings,
                             1)
                  /\ BackupProceed(AfterRestoreTemplateEarnings(pendingBackupData[1], bi),
                                   TRUE)
             ELSE /\ BackupAbort
                  /\ UNCHANGED template_earnings
    /\ UNCHANGED <<salary_records, earnings, deductions, organization_templates,
                   template_deductions, nextId, salaryRecord, backupDb>>
    /\ UNCHANGED imported
    /\ UNCHANGED <<exportVars, formVars>>

RestoreTemplateDeductions ==
    /\ pc = "restoreTemplateDeductions"
    /\ \E ok \in BOOLEAN :
          /\ RestoreCall("template_deductions.insert", ok)
          /\ IF ok
             THEN /\ template_deductions' = template_deductions \o
                         RestoredCategoryRows(
                             pendingBackupData[1].organizationTemplates[bi].id,
                             pendingBackupData[1].organizationTemplates[bi].template_deductions,
                             1)
                  /\ BackupProceed(EnterTemplates(pendingBackupData[1], bi + 1), TRUE)
             ELSE /\ BackupAbort
                  /\ UNCHANGED template_deductions
    /\ UNCHANGED <<salary_records, earnings, deductions, organization_templates,
                   template_earnings, nextId, salaryRecord, backupDb>>
    /\ UNCHANGED imported
    /\ UNCHANGED <<exportVars, formVars>>

\* a plain insert: salary_records_user_id_month_year_key and the two checks
RestoreSalaryRecord ==
    /\ pc = "restoreSalaryRecord"
    /\ \E ok \in IF \/ ConflictingRows(salary_records,
                                       pendingBackupData[1].salaryRecords[bi].month,
                                       pendingBackupData[1].salaryRecords[bi].year) # {}
                    \/ ~ ChecksPass(pendingBackupData[1].salaryRecords[bi].month,
                                    pendingBackupData[1].salaryRecords[bi].year)
                 THEN {FALSE} ELSE BOOLEAN :
          /\ RestoreCall("salary_records.insert", ok)
          /\ IF ok
             THEN /\ salary_records' = salary_records \cup
                         {RestoredRecord(pendingBackupData[1].salaryRecords[bi], nextId)}
                  /\ salaryRecord' = nextId
                  /\ nextId' = nextId + 1
                  /\ BackupProceed(AfterRestoreSalaryRecord(pendingBackupData[1], bi), TRUE)
             ELSE /\ BackupAbort
                  /\ UNCHANGED <<salary_records, salaryRecord, nextId>>
    /\ UNCHANGED <<earnings, deductions, organization_templates, template_earnings,
                   template_deductions, backupDb>>
    /\ UNCHANGED imported
    /\ UNCHANGED <<exportVars, formVars>>

RestoreEarnings ==
    /\ pc = "restoreEarnings"
    /\ \E ok \in BOOLEAN :
          /\ RestoreCall("earnings.insert", ok)
          /\ IF ok
             THEN /\ earnings' = earnings \o
                         LineItemRows(salaryRecord,
                                      pendingBackupData[1].salaryRecords[bi].earnings, 1)
                  /\ BackupProceed(AfterRestoreEarnings(pendingBackupData[1], bi), TRUE)
             ELSE /\ BackupAbort
                  /\ UNCHANGED earnings
    /\ UNCHANGED <<salary_records, deductions, organization_templates, template_earnings,
                   template_deductions, nextId, salaryRecord, backupDb>>
    /\ UNCHANGED imported
    /\ UNCHANGED <<exportVars, formVars>>

RestoreDeductions ==
    /\ pc = "restoreDeductions"
    /\ \E ok \in BOOLEAN :
          /\ RestoreCall("deductions.insert", ok)
          /\ IF ok
             THEN /\ deductions' = deductions \o
                         LineItemRows(salaryRecord,
                                      pendingBackupData[1].salaryRecords[bi].deductions, 1)
                  /\ BackupProceed(EnterSalaryRecords(pendingBackupData[1], bi + 1), TRUE)
             ELSE /\ BackupAbort
                  /\ UNCHANGED deductions
    /\ UNCHANGED <<salary_records, earnings, organization_templates, template_earnings,
                   template_deductions, nextId, salaryRecord, backupDb>>
    /\ UNCHANGED imported
    /\ UNCHANGED <<exportVars, formVars>>

RestoreEmploymentHistory ==
    /\ pc = "restoreEmploymentHistory"
    /\ \E ok \in BOOLEAN :
          /\ RestoreCall("employment_history.insert", ok)
          /\ IF ok
             THEN /\ employment_history' =
                         Append(employment_history,
                                pendingBackupData[1].employmentHistory[bi])
                  /\ BackupProceed(EnterEmploymentHistory(pendingBackupData[1], bi + 1),
                                   TRUE)
             ELSE /\ BackupAbort
                  /\ UNCHANGED employment_history
    /\ UNCHANGED <<dbVars, salaryRecord, budget_history, profiles>>
    /\ UNCHANGED imported
    /\ UNCHANGED <<exportVars, formVars>>

\* budget_history_user_id_month_year_key
RestoreBudgetHistory ==
    /\ pc = "restoreBudgetHistory"
    /\ \E ok \in IF \E k \in 1..Len(budget_history) :
                       /\ budget_history[k].month =
                              pendingBackupData[1].budgetHistory[bi].month
                       /\ budget_history[k].year =
                              pendingBackupData[1].budgetHistory[bi].year
                 THEN {FALSE} ELSE BOOLEAN :
          /\ RestoreCall("budget_history.insert", ok)
          /\ IF ok
             THEN /\ budget_history' =
                         Append(budget_history, pendingBackupData[1].budgetHistory[bi])
                  /\ BackupProceed(EnterBudgetHistory(pendingBackupData[1], bi + 1), TRUE)
             ELSE /\ BackupAbort
                  /\ UNCHANGED budget_history
    /\ UNCHANGED <<dbVars, salaryRecord, employment_history, profiles>>
    /\ UNCHANGED imported
    /\ UNCHANGED <<exportVars, formVars>>

\* profiles.upsert on the primary key: the one row of the user
RestoreProfile ==
    /\ pc = "restoreProfile"
    /\ \E ok \in BOOLEAN :
          /\ RestoreCall("profiles.upsert", ok)
          /\ IF ok
             THEN /\ profiles' = pendingBackupData[1].profile
                  /\ BackupProceed([pc |-> "idle", bi |-> 0], TRUE)
             ELSE /\ BackupAbort
                  /\ UNCHANGED profiles
    /\ UNCHANGED <<dbVars, salaryRecord, employment_history, budget_history>>
    /\ UNCHANGED imported
    /\ UNCHANGED <<exportVars, formVars>>

(***************************************************************************)
(* The accounts a restore starts in and the backup files a user may select *)
(***************************************************************************)
BackupFile(size, parses, isObject, version, data) ==
    [size |-> size, parses |-> parses, isObject |-> isObject, version |-> version]
    @@ data

EmptyBackupData ==
    [organizationTemplates |-> <<>>, salaryRecords |-> <<>>,
     employmentHistory |-> <<>>, budgetHistory |-> <<>>, profile |-> <<>>]

BackupRecord(month, year, organization, earningItems, deductionItems) ==
    [month |-> month, year |-> year, organization |-> organization,
     total_earnings |-> 150, total_deductions |-> 10, net_salary |-> 140,
     gross_salary |-> 150, earnings |-> earningItems, deductions |-> deductionItems]

FullBackupData ==
    [organizationTemplates |->
         <<[id |-> 21, name |-> "TCS",
            template_earnings   |-> <<[category |-> "Basic Salary"], [category |-> "HRA"]>>,
            template_deductions |-> <<[category |-> "Income Tax"]>>],
           [id |-> 22, name |-> "ACME",
            template_earnings |-> <<>>, template_deductions |-> <<>>]>>,
     salaryRecords |->
         <<BackupRecord(1, 2025, "TCS",
                        <<[category |-> "Basic Salary", amount |-> 100],
                          [category |-> "HRA", amount |-> 50]>>,
                        <<[category |-> "Income Tax", amount |-> 10]>>),
           BackupRecord(2, 2025, "ACME",
                        <<[category |-> "Basic Salary", amount |-> 150]>>, <<>>)>>,
     employmentHistory |-> <<[organization |-> "TCS", joining_date |-> 2020]>>,
     budgetHistory |->
         <<[month |-> 1, year |-> 2025, net_income |-> 140],
           [month |-> 2, year |-> 2025, net_income |-> 150]>>,
     profile |-> <<[full_name |-> "Restored"]>>]

SmallBackupData ==
    [organizationTemplates |-> <<>>,
     salaryRecords |-> <<BackupRecord(1, 2025, "ACME", <<>>, <<>>)>>,
     employmentHistory |-> <<[organization |-> "ACME", joining_date |-> 2021]>>,
     budgetHistory |-> <<>>,
     profile |-> <<>>]

BackupFiles ==
    {BackupFile(MAX_FILE_SIZE + 1, TRUE, TRUE, 1, FullBackupData),
     BackupFile(100, FALSE, FALSE, 0, EmptyBackupData),
     BackupFile(100, TRUE, FALSE, 0, EmptyBackupData),
     BackupFile(100, TRUE, TRUE, 2, FullBackupData),
     BackupFile(100, TRUE, TRUE, 1, EmptyBackupData),
     BackupFile(MAX_FILE_SIZE, TRUE, TRUE, 1, FullBackupData),
     BackupFile(100, TRUE, TRUE, 1, SmallBackupData)}

\* an account that holds one entry of every kind
PopulatedAccount ==
    /\ salary_records =
           {[id |-> 1, organization |-> "OLD", month |-> 1, year |-> 2025,
             total_earnings |-> 70, total_deductions |-> 5, net_salary |-> 65,
             gross_salary |-> 70]}
    /\ earnings = <<[salary_record_id |-> 1, category |-> "Basic Salary", amount |-> 70]>>
    /\ deductions = <<[salary_record_id |-> 1, category |-> "Income Tax", amount |-> 5]>>
    /\ organization_templates = {[id |-> 11, name |-> "OLD"]}
    /\ template_earnings = <<[template_id |-> 11, category |-> "Basic Salary"]>>
    /\ template_deductions = <<[template_id |-> 11, category |-> "Income Tax"]>>
    /\ nextId = 2
    /\ employment_history = <<[organization |-> "OLD", joining_date |-> 2019]>>
    /\ budget_history = <<[month |-> 1, year |-> 2025, net_income |-> 65]>>
    /\ profiles = <<[full_name |-> "Before"]>>

EmptyAccount ==
    /\ salary_records = {}
    /\ earnings = <<>>
    /\ deductions = <<>>
    /\ organization_templates = {}
    /\ template_earnings = <<>>
    /\ template_deductions = <<>>
    /\ nextId = 1
    /\ employment_history = <<>>
    /\ budget_history = <<>>
    /\ profiles = <<>>

InitBackup ==
    /\ PopulatedAccount \/ EmptyAccount
    /\ pendingBackupData = <<>>
    /\ pendingBackupCounts = <<>>
    /\ backupConfirmOpen = FALSE
    /\ isBackupImporting = FALSE
    /\ backupImportTotal = 0
    /\ backupImportProcessed = 0
    /\ backupImportSummary = <<>>
    /\ bi = 0
    /\ backupFile = <<>>
    /\ accountBefore = <<>>
    /\ restoreCalls = <<>>
    /\ restores = 0
    /\ backupStatus = "none"
    /\ EditClosed
    /\ selectedFileName = ""
    /\ isProcessing = FALSE
    /\ processedRecords = 0
    /\ totalRecords = 0
    /\ importPlan = <<>>
    /\ showConfirm = FALSE
    /\ importSummary = <<>>
    /\ errorToasts = 0
    /\ successToasts = 0
    /\ pc = "idle"
    /\ file = NoFile
    /\ exportedFile = NoFile
    /\ si = 0
    /\ ri = 0
    /\ template = 0
    /\ salaryRecord = 0
    /\ totalRecordsImported = 0
    /\ totalTemplates = 0
    /\ uploads = 0
    /\ planStatus = "none"
    /\ calls = 0
    /\ recordsWritten = 0
    /\ aborted = FALSE
    /\ upsertHit = FALSE
    /\ removed = {}
    /\ imported = <<>>
    /\ backupDownload = <<>>
    /\ exports = 0
    /\ FormMounted

NextBackup ==
    \/ \E f \in BackupFiles : HandleImportBackupFile(f)
    \/ CancelBackupConfirm
    \/ PerformBackupImport
    \/ Wipe
    \/ DeleteBudgetHistory
    \/ RestoreTemplate
    \/ RestoreTemplateEarnings
    \/ RestoreTemplateDeductions
    \/ RestoreSalaryRecord
    \/ RestoreEarnings
    \/ RestoreDeductions
    \/ RestoreEmploymentHistory
    \/ RestoreBudgetHistory
    \/ RestoreProfile

SpecBackup == InitBackup /\ [][NextBackup]_vars

(***************************************************************************)
(* handleExportBackup: the five selects and the file it downloads.  The    *)
(* JSON text is taken to give back, when parsed, the values that were      *)
(* serialized; a column that is NULL is a field the row does not have.     *)
(***************************************************************************)
\* salary_records with earnings (*) and deductions (*), organization_templates
\* with template_earnings (*) and template_deductions (*): the row and, nested
\* in it, every column of the rows that refer to it
NestedRecord(tables, r) ==
    r @@ [earnings   |-> RowsOf(tables[2], "salary_record_id", r.id),
          deductions |-> RowsOf(tables[3], "salary_record_id", r.id)]

NestedTemplate(tables, t) ==
    t @@ [template_earnings   |-> RowsOf(tables[5], "template_id", t.id),
          template_deductions |-> RowsOf(tables[6], "template_id", t.id)]

MaxExports == 2

\* backupPayload as a file: recs and tmpls are the salary records and the
\* templates in the order the selects returned them
BackupPayload(tables, recs, tmpls) ==
    BackupFile(100, TRUE, TRUE, 1,
        [organizationTemplates |-> [k \in DOMAIN tmpls |-> NestedTemplate(tables, tmpls[k])],
         salaryRecords         |-> [k \in DOMAIN recs |-> NestedRecord(tables, recs[k])],
         employmentHistory     |-> tables[7],
         budgetHistory         |-> tables[8],
         profile               |-> tables[9]])

HandleExportBackup ==
    /\ pc = "idle"
    /\ ~ isBackupImporting
    /\ exports < MaxExports
    /\ exports' = exports + 1
    /\ \E ok \in BOOLEAN :
          IF ok
          THEN /\ \E recs \in Orderings(salary_records),
                     tmpls \in Orderings(organization_templates) :
                      backupDownload' = <<BackupPayload(AllTables, recs, tmpls)>>
               /\ successToasts' = successToasts + 1
               /\ UNCHANGED errorToasts
          ELSE /\ errorToasts' = errorToasts + 1
               /\ UNCHANGED <<backupDownload, successToasts>>
    /\ UNCHANGED <<dbVars, uiVars, localVars, exportedFile, historyVars, backupVars,
                   editVars, imported, formVars>>

\* an account whose line items carry a description, one that has none
LineItem(id, category, amount, description) ==
    [salary_record_id |-> id, category |-> category, amount |-> amount,
     description |-> description]

AccountOf(earningRows, deductionRows) ==
    /\ salary_records =
           {[id |-> 1, organization |-> "TCS", month |-> 1, year |-> 2025,
             total_earnings |-> 150, total_deductions |-> 10, net_salary |-> 140,
             gross_salary |-> 150],
            [id |-> 2, organization |-> "ACME", month |-> 2, year |-> 2025,
             total_earnings |-> 150, total_deductions |-> 0, net_salary |-> 150,
             gross_salary |-> 150]}
    /\ earnings = earningRows
    /\ deductions = deductionRows
    /\ organization_templates = {[id |-> 11, name |-> "TCS"], [id |-> 12, name |-> "ACME"]}
    /\ template_earnings = <<[template_id |-> 11, category |-> "Basic Salary"],
                             [template_id |-> 11, category |-> "HRA"]>>
    /\ template_deductions = <<[template_id |-> 11, category |-> "Income Tax"]>>
    /\ nextId = 3
    /\ employment_history = <<[organization |-> "TCS", joining_date |-> 2020]>>
    /\ budget_history = <<[month |-> 1, year |-> 2025, net_income |-> 140]>>
    /\ profiles = <<[full_name |-> "Before"]>>

DescribedAccount ==
    AccountOf(<<LineItem(1, "Basic Salary", 100, "Revised in January"),
                LineItem(1, "HRA", 50, "Metro"),
                LineItem(2, "Basic Salary", 150, "Joining month")>>,
              <<LineItem(1, "Income Tax", 10, "Old regime")>>)

PlainAccount ==
    AccountOf(<<[salary_record_id |-> 1, category |-> "Basic Salary", amount |-> 100],
                [salary_record_id |-> 1, category |-> "HRA", amount |-> 50],
                [salary_record_id |-> 2, category |-> "Basic Salary", amount |-> 150]>>,
              <<[salary_record_id |-> 1, category |-> "Income Tax", amount |-> 10]>>)

InitBackupRoundTrip ==
    /\ DescribedAccount \/ PlainAccount \/ EmptyAccount
    /\ pendingBackupData = <<>>
    /\ pendingBackupCounts = <<>>
    /\ backupConfirmOpen = FALSE
    /\ isBackupImporting = FALSE
    /\ backupImportTotal = 0
    /\ backupImportProcessed = 0
    /\ backupImportSummary = <<>>
    /\ bi = 0
    /\ backupFile = <<>>
    /\ accountBefore = <<>>
    /\ restoreCalls = <<>>
    /\ restores = 0
    /\ backupStatus = "none"
    /\ EditClosed
    /\ selectedFileName = ""
    /\ isProcessing = FALSE
    /\ processedRecords = 0
    /\ totalRecords = 0
    /\ importPlan = <<>>
    /\ showConfirm = FALSE
    /\ importSummary = <<>>
    /\ errorToasts = 0
    /\ successToasts = 0
    /\ pc = "idle"
    /\ file = NoFile
    /\ exportedFile = NoFile
    /\ si = 0
    /\ ri = 0
    /\ template = 0
    /\ salaryRecord = 0
    /\ totalRecordsImported = 0
    /\ totalTemplates = 0
    /\ uploads = 0
    /\ planStatus = "none"
    /\ calls = 0
    /\ recordsWritten = 0
    /\ aborted = FALSE
    /\ upsertHit = FALSE
    /\ removed = {}
    /\ imported = <<>>
    /\ backupDownload = <<>>
    /\ exports = 0
    /\ FormMounted

\* the files the import can be given: the one the export downloaded
DownloadedFiles == {backupDownload[k] : k \in DOMAIN backupDownload}

NextBackupRoundTrip ==
    \/ HandleExportBackup
    \/ \E f \in DownloadedFiles : HandleImportBackupFile(f)
    \/ PerformBackupImport
    \/ Wipe
    \/ DeleteBudgetHistory
    \/ RestoreTemplate
    \/ RestoreTemplateEarnings
    \/ RestoreTemplateDeductions
    \/ RestoreSalaryRecord
    \/ RestoreEarnings
    \/ RestoreDeductions
    \/ RestoreEmploymentHistory
    \/ RestoreBudgetHistory
    \/ RestoreProfile

SpecBackupRoundTrip == InitBackupRoundTrip /\ [][NextBackupRoundTrip]_vars

(***************************************************************************)
(* EditRecordDialog: handleSave                                            *)
(***************************************************************************)
\* clicks on Save allowed in one run of the model
MaxSaves == 2

\* reduce((sum, e) => sum + e.amount, 0)
RECURSIVE SumAmounts(_, _)
SumAmounts(items, i) ==
    IF i > Len(items) THEN 0 ELSE items[i].amount + SumAmounts(items, i + 1)

\* editedEarnings.find / editedDeductions.find of an amount out of range
HasInvalidAmount(items) ==
    \E i \in 1..Len(items) : items[i].amount < 0 \/ items[i].amount > MAX_AMOUNT

\* handleSave returns before setIsSubmitting(true)
SaveRejected ==
    \/ editMonth < 1 \/ editMonth > 12
    \/ editYear < 2000 \/ editYear > 2100
    \/ HasInvalidAmount(editedEarnings)
    \/ HasInvalidAmount(editedDeductions)

\* update salary_records set ... where id = id
UpdateSalaryRecord(rows, id) ==
    {IF r.id # id THEN r
     ELSE [id               |-> r.id,
           organization     |-> editOrganization,
           month            |-> editMonth,
           year             |-> editYear,
           total_earnings   |-> SumAmounts(editedEarnings, 1),
           total_deductions |-> SumAmounts(editedDeductions, 1),
           net_salary       |-> SumAmounts(editedEarnings, 1)
                                - SumAmounts(editedDeductions, 1),
           gross_salary     |-> SumAmounts(editedEarnings, 1)] : r \in rows}

\* the call after the two deletes, and after the insert of the earnings
AfterDeletes ==
    IF Len(editedEarnings) > 0 THEN "insertEditedEarnings"
    ELSE IF Len(editedDeductions) > 0 THEN "insertEditedDeductions" ELSE "idle"

AfterInsertEditedEarnings ==
    IF Len(editedDeductions) > 0 THEN "insertEditedDeductions" ELSE "idle"

EditFrame ==
    UNCHANGED <<nextId, organization_templates, template_earnings, template_deductions,
                uiVars, file, si, ri, template, salaryRecord, totalRecordsImported,
                totalTemplates, exportedFile, historyVars, backupVars,
                editRecordId, editOrganization, editMonth, editYear,
                editedEarnings, editedDeductions, itemsBefore, saves>>

\* the catch block, then the finally block: the dialog stays open
EditAbort ==
    /\ errorToasts' = errorToasts + 1
    /\ isSubmitting' = FALSE
    /\ pc' = "idle"
    /\ UNCHANGED <<successToasts, editOpen>>

\* on to the call at position next, or toast.success, onOpenChange(false)
\* and the finally block
EditProceed(next) ==
    /\ pc' = next
    /\ IF next = "idle"
       THEN /\ successToasts' = successToasts + 1
            /\ editOpen' = FALSE
            /\ isSubmitting' = FALSE
       ELSE UNCHANGED <<successToasts, editOpen, isSubmitting>>
    /\ UNCHANGED errorToasts

HandleSave ==
    /\ pc = "idle"
    /\ editOpen
    /\ ~ isSubmitting
    /\ saves < MaxSaves
    /\ saves' = saves + 1
    /\ itemsBefore' = <<[earnings   |-> RowsOf(earnings, "salary_record_id", editRecordId),
                         deductions |-> RowsOf(deductions, "salary_record_id",
                                               editRecordId)]>>
    /\ IF SaveRejected
       THEN /\ errorToasts' = errorToasts + 1
            /\ UNCHANGED <<isSubmitting, pc>>
       ELSE /\ isSubmitting' = TRUE
            /\ pc' = "updateRecord"
            /\ UNCHANGED errorToasts
    /\ UNCHANGED <<dbVars, uiVars, successToasts, file, si, ri, template, salaryRecord,
                   totalRecordsImported, totalTemplates, exportedFile, historyVars,
                   backupVars, editOpen, editRecordId, editOrganization, editMonth,
                   editYear, editedEarnings, editedDeductions>>
    /\ UNCHANGED imported
    /\ UNCHANGED <<exportVars, formVars>>

\* salary_records_user_id_month_year_key
UpdateRecord ==
    /\ pc = "updateRecord"
    /\ \E ok \in IF \E r \in salary_records :
                       r.id # editRecordId /\ r.month = editMonth /\ r.year = editYear
                 THEN {FALSE} ELSE BOOLEAN :
          IF ok
          THEN /\ salary_records' = UpdateSalaryRecord(salary_records, editRecordId)
               /\ EditProceed("deleteEarnings")
          ELSE /\ EditAbort
               /\ UNCHANGED salary_records
    /\ UNCHANGED <<earnings, deductions>>
    /\ EditFrame
    /\ UNCHANGED imported
    /\ UNCHANGED <<exportVars, formVars>>

\* the result of the delete is not looked at
DeleteEarnings ==
    /\ pc = "deleteEarnings"
    /\ \E ok \in BOOLEAN :
          earnings' = IF ok THEN DeleteWhere(earnings, "salary_record_id", editRecordId)
                      ELSE earnings
    /\ EditProceed("deleteDeductions")
    /\ UNCHANGED <<salary_records, deductions>>
    /\ EditFrame
    /\ UNCHANGED imported
    /\ UNCHANGED <<exportVars, formVars>>

DeleteDeductions ==
    /\ pc = "deleteDeductions"
    /\ \E ok \in BOOLEAN :
          deductions' = IF ok
                        THEN DeleteWhere(deductions, "salary_record_id", editRecordId)
                        ELSE deductions
    /\ EditProceed(AfterDeletes)
    /\ UNCHANGED <<salary_records, earnings>>
    /\ EditFrame
    /\ UNCHANGED imported
    /\ UNCHANGED <<exportVars, formVars>>

InsertEditedEarnings ==
    /\ pc = "insertEditedEarnings"
    /\ \E ok \in BOOLEAN :
          IF ok
          THEN /\ earnings' = earnings \o LineItemRows(editRecordId, editedEarnings, 1)
               /\ EditProceed(AfterInsertEditedEarnings)
          ELSE /\ EditAbort
               /\ UNCHANGED earnings
    /\ UNCHANGED <<salary_records, deductions>>
    /\ EditFrame
    /\ UNCHANGED imported
    /\ UNCHANGED <<exportVars, formVars>>

InsertEditedDeductions ==
    /\ pc = "insertEditedDeductions"
    /\ \E ok \in BOOLEAN :
          IF ok
          THEN /\ deductions' = deductions \o LineItemRows(editRecordId, editedDeductions, 1)
               /\ EditProceed("idle")
          ELSE /\ EditAbort
               /\ UNCHANGED deductions
    /\ UNCHANGED <<salary_records, earnings>>
    /\ EditFrame
    /\ UNCHANGED imported
    /\ UNCHANGED <<exportVars, formVars>>

(***************************************************************************)
(* The records a dialog is opened for and the edits a user may make        *)
(***************************************************************************)
EditOldEarnings ==
    {<<[category |-> "Basic Salary", amount |-> 100]>>,
     <<[category |-> "Basic Salary", amount |-> 100], [category |-> "HRA", amount |-> 50]>>}

EditOldDeductions == {<<>>, <<[category |-> "Income Tax", amount |-> 10]>>}

EditNewEarnings ==
    {<<>>,
     <<[category |-> "Basic Salary", amount |-> 120]>>,
     <<[category |-> "Basic Salary", amount |-> 120], [category |-> "Bonus", amount |-> 30]>>,
     <<[category |-> "Basic Salary", amount |-> MAX_AMOUNT + 1]>>}

EditNewDeductions ==
    {<<>>,
     <<[category |-> "Income Tax", amount |-> 12]>>,
     <<[category |-> "Income Tax", amount |-> 12],
       [category |-> "Provident Fund", amount |-> 6]>>}

EditMonths == {1, 13}

\* the dialog is open for the one record of the account, with the user's edits
InitEdit ==
    /\ \E e \in EditOldEarnings, d \in EditOldDeductions :
          /\ salary_records =
                 {[id |-> 1, organization |-> "TCS", month |-> 1, year |-> 2025,
                   total_earnings |-> SumAmounts(e, 1),
                   total_deductions |-> SumAmounts(d, 1),
                   net_salary |-> SumAmounts(e, 1) - SumAmounts(d, 1),
                   gross_salary |-> SumAmounts(e, 1)]}
          /\ earnings = LineItemRows(1, e, 1)
          /\ deductions = LineItemRows(1, d, 1)
    /\ organization_templates = {}
    /\ template_earnings = <<>>
    /\ template_deductions = <<>>
    /\ nextId = 2
    /\ editOpen = TRUE
    /\ editRecordId = 1
    /\ editOrganization = "TCS"
    /\ editMonth \in EditMonths
    /\ editYear = 2025
    /\ editedEarnings \in EditNewEarnings
    /\ editedDeductions \in EditNewDeductions
    /\ isSubmitting = FALSE
    /\ itemsBefore = <<>>
    /\ saves = 0
    /\ BackupIdle
    /\ selectedFileName = ""
    /\ isProcessing = FALSE
    /\ processedRecords = 0
    /\ totalRecords = 0
    /\ importPlan = <<>>
    /\ showConfirm = FALSE
    /\ importSummary = <<>>
    /\ errorToasts = 0
    /\ successToasts = 0
    /\ pc = "idle"
    /\ file = NoFile
    /\ exportedFile = NoFile
    /\ si = 0
    /\ ri = 0
    /\ template = 0
    /\ salaryRecord = 0
    /\ totalRecordsImported = 0
    /\ totalTemplates = 0
    /\ uploads = 0
    /\ planStatus = "none"
    /\ calls = 0
    /\ recordsWritten = 0
    /\ aborted = FALSE
    /\ upsertHit = FALSE
    /\ removed = {}
    /\ imported = <<>>
    /\ backupDownload = <<>>
    /\ exports = 0
    /\ FormMounted

NextEdit ==
    \/ HandleSave
    \/ UpdateRecord
    \/ DeleteEarnings
    \/ DeleteDeductions
    \/ InsertEditedEarnings
    \/ InsertEditedDeductions

SpecEdit == InitEdit /\ [][NextEdit]_vars

(***************************************************************************)
(* Properties of the import                                                *)
(***************************************************************************)
ExecutorPcs ==
    {"sheetLoop", "selectTemplate", "insertTemplate", "deleteTemplateEarnings",
     "deleteTemplateDeductions", "insertTemplateEarnings",
     "insertTemplateDeductions", "recordLoop", "upsertRecord", "insertEarnings",
     "insertDeductions"}

RecordPcs == {"recordLoop", "upsertRecord", "insertEarnings", "insertDeductions"}

\* the last execution ran to the end of the try block
Finished == planStatus = "proceeded" /\ pc = "idle" /\ ~ isProcessing /\ ~ aborted

\* the executor is at a record of the current sheet
AtRecord == pc \in RecordPcs /\ ri >= 1 /\ ri <= Len(records)

\* the step that completes the writes of the current record
RecordCompletes == recordsWritten' = recordsWritten + 1

\* the plan holds two records with the same month and year
PlanHasDuplicateMonth(plan) ==
    \E i, j \in 1..Len(plan.sheets) :
        \E a \in 1..Len(plan.sheets[i].records), b \in 1..Len(plan.sheets[j].records) :
            /\ <<i, a>> # <<j, b>>
            /\ plan.sheets[i].records[a].month = plan.sheets[j].records[b].month
            /\ plan.sheets[i].records[a].year = plan.sheets[j].records[b].year

\* C1: at most one persisted salary record per (user_id, month, year)
OneRecordPerMonth ==
    \A a, b \in salary_records : (a.month = b.month /\ a.year = b.year) => a = b

\* C1: an upsert that meets an existing (month, year) adds no row, keeps the
\* row's id and overwrites its organization and total fields
UpsertOverwrites ==
    (pc = "upsertRecord" /\ salary_records' # salary_records
        /\ ConflictingRows(salary_records, record.month, record.year) # {})
    => /\ Cardinality(salary_records') = Cardinality(salary_records)
       /\ {r.id : r \in salary_records'} = {r.id : r \in salary_records}
       /\ \E r \in salary_records' :
             /\ r.id = salaryRecord'
             /\ r.id \in {q.id : q \in ConflictingRows(salary_records, record.month, record.year)}
             /\ r.organization = record.organization
             /\ r.total_earnings = record.totalEarnings
             /\ r.total_deductions = record.totalDeductions
             /\ r.net_salary = record.netSalary

\* C1: after any sequence of imports the persisted salary records hold at
\* most one record per (user, month, year), and importing a record whose
\* (month, year) exists overwrites that record instead of adding a second one
C1_UpsertInPlace == [](OneRecordPerMonth) /\ [][UpsertOverwrites]_vars

\* a plan with two records of the same month was executed to the end and
\* its upsert met the existing row
C1_Witness ==
    /\ Finished
    /\ PlanHasDuplicateMonth(importPlan[1])
    /\ recordsWritten >= 2
    /\ upsertHit
    /\ Cardinality(salary_records) = 1

\* C2: when a record is written over an existing (user, month, year) record,
\* the earnings and deductions persisted for it afterwards are exactly the
\* line items of the imported record
C2_LineItemsReplaced ==
    [][(RecordCompletes /\ upsertHit')
        => /\ RowsOf(earnings', "salary_record_id", salaryRecord')
                = LineItemRows(salaryRecord', record.earnings, 1)
           /\ RowsOf(deductions', "salary_record_id", salaryRecord')
                = LineItemRows(salaryRecord', record.deductions, 1)]_vars

\* C3: from the selection of a file until its plan is displayed, no row of
\* the persisted salary records, line items and templates changes
C3_PlanBuildWritesNothing ==
    [][((pc = "idle" /\ pc' = "reading") \/ pc = "reading")
        => (db' = db /\ calls' = calls)]_vars

\* a plan is displayed for a second file while the account holds records
C3_Witness ==
    /\ showConfirm
    /\ planStatus = "shown"
    /\ uploads = 2
    /\ salary_records # {}
    /\ organization_templates # {}

\* C4: every persistence call of the import follows a completed plan build,
\* the display of that plan in the confirmation dialog and the user's choice
\* to proceed; after a cancel, nothing is written for the cancelled plan
C4_WritesOnlyAfterConfirm ==
    [][/\ (db' # db \/ calls' > calls)
            => (importPlan # <<>> /\ planStatus = "proceeded" /\ ~ showConfirm)
       /\ (planStatus' = "proceeded" /\ planStatus # "proceeded")
            => (planStatus = "shown" /\ showConfirm /\ importPlan # <<>>)
       /\ (planStatus = "cancelled")
            => (db' = db /\ calls' = calls /\ planStatus' \in {"cancelled", "shown"})]_vars

\* the executor has written for a confirmed plan after an earlier plan was
\* cancelled or confirmed
C4_Witness ==
    /\ planStatus = "proceeded"
    /\ uploads = 2
    /\ calls > 0
    /\ salary_records # {}

\* C5: a persistence call that returns an error ends the execution: nothing
\* is rolled back, the error is reported once and no further call is issued
C5_ErrorAborts ==
    [][/\ (~ aborted /\ aborted')
            => (db' = db /\ errorToasts' = errorToasts + 1
                /\ pc' = "idle" /\ ~ isProcessing')
       /\ (aborted /\ aborted')
            => (db' = db /\ calls' = calls /\ pc' \notin ExecutorPcs)]_vars

\* an execution was aborted after it had written a record, with records left
C5_Witness ==
    /\ aborted
    /\ pc = "idle"
    /\ recordsWritten >= 1
    /\ recordsWritten < importPlan[1].totalRecordsToImport
    /\ salary_records # {}

\* a record the claim C6 says is skipped: a line item or a declared total
\* above the cap, or month or year out of range
AboveCapOrOutOfRange(rec) ==
    \/ InvalidMonthYear(rec)
    \/ rec.totalEarnings > MAX_AMOUNT
    \/ rec.totalDeductions > MAX_AMOUNT
    \/ rec.netSalary > MAX_AMOUNT
    \/ \E i \in 1..Len(rec.earnings) : rec.earnings[i].amount > MAX_AMOUNT
    \/ \E i \in 1..Len(rec.deductions) : rec.deductions[i].amount > MAX_AMOUNT

\* C6: a record with a line item or declared total above 100,000,000, or a
\* month or year out of range, is in the plan's count, yet the executor
\* writes nothing for it, does not count it and goes on with the next record
C6_BoundViolationSkipped ==
    [][(AtRecord /\ AboveCapOrOutOfRange(record))
        => /\ db' = db
           /\ processedRecords' = processedRecords
           /\ totalRecordsImported' = totalRecordsImported
           /\ pc' = "recordLoop"
           /\ ri' = ri + 1]_vars

\* C7: the processed-record counter never exceeds the number of records
\* whose upsert, earnings insert and deductions insert have all succeeded
C7_CounterAfterWrite == processedRecords <= recordsWritten

\* the sheets of the current plan the executor is done with the template of
SheetsWithTemplateDone ==
    IF importPlan = <<>> THEN {}
    ELSE IF Finished THEN {i \in 1..Len(sheets) : Len(sheets[i].records) > 0}
    ELSE IF pc \in ExecutorPcs
    THEN {i \in 1..Len(sheets) :
            /\ Len(sheets[i].records) > 0
            /\ (i < si \/ (i = si /\ pc \in RecordPcs))}
    ELSE {}

TemplateHasExactly(name, recs) ==
    LET found == TemplatesNamed(organization_templates, name)
    IN  /\ Cardinality(found) = 1
        /\ \A t \in found :
              LET te == RowsOf(template_earnings, "template_id", t.id)
                  td == RowsOf(template_deductions, "template_id", t.id)
              IN  /\ {r.category : r \in SeqToSet(te)}
                        = SeqToSet(allEarningsCategories(recs))
                  /\ {r.category : r \in SeqToSet(td)}
                        = SeqToSet(allDeductionsCategories(recs))
                  /\ Len(te) = Cardinality(SeqToSet(allEarningsCategories(recs)))
                  /\ Len(td) = Cardinality(SeqToSet(allDeductionsCategories(recs)))

\* C8: once the executor has processed a sheet with records, the template
\* named like the sheet holds exactly the earning categories and exactly the
\* deduction categories of the sheet's plan records
C8_TemplateReset ==
    \A i \in SheetsWithTemplateDone :
        TemplateHasExactly(sheets[i].sheetName, sheets[i].records)

\* an execution ended that deleted a category its sheet does not contain
C8_Witness ==
    /\ Finished
    /\ \E i \in SheetsWithTemplateDone :
          \E c \in removed :
              /\ c[1] = sheets[i].sheetName
              /\ c[2] = "earnings"
              /\ c[3] \notin SeqToSet(allEarningsCategories(sheets[i].records))

\* the persisted salary records with their line items, as the tuples of
\* the round trip
PersistedItems(rows, id) ==
    {[category |-> r.category, amount |-> r.amount] :
        r \in SeqToSet(RowsOf(rows, "salary_record_id", id))}

ExportedTuples ==
    {[month           |-> r.month,
      year            |-> r.year,
      organization    |-> r.organization,
      totalEarnings   |-> r.total_earnings,
      totalDeductions |-> r.total_deductions,
      netSalary       |-> r.net_salary,
      earnings        |-> PersistedItems(earnings, r.id),
      deductions      |-> PersistedItems(deductions, r.id)] : r \in salary_records}

\* the records of the displayed plan, as the tuples of the round trip
PlanRecords ==
    UNION {SeqToSet(importPlan[1].sheets[i].records) :
              i \in 1..Len(importPlan[1].sheets)}

ImportedTuples ==
    {[month           |-> r.month,
      year            |-> r.year,
      organization    |-> r.organization,
      totalEarnings   |-> r.totalEarnings,
      totalDeductions |-> r.totalDeductions,
      netSalary       |-> r.netSalary,
      earnings        |-> SeqToSet(r.earnings),
      deductions      |-> SeqToSet(r.deductions)] : r \in PlanRecords}

\* the plan on display was built from the workbook the export produced
ExportReimported == showConfirm /\ exportedFile # NoFile /\ file = exportedFile

\* C9: the plan built from an exported workbook holds the same (month, year,
\* organization, totalEarnings, totalDeductions, netSalary) tuples, with
\* the same per-category earning and deduction amounts, as the exported
\* salary records
C9_RoundTrip == ExportReimported => ImportedTuples = ExportedTuples

\* the headers the claim calls reserved, for a sheet of the selected file
ReservedOfSheet(sheetName) ==
    LET sheet == CHOOSE sh \in SeqToSet(file.sheets) : sh.sheetName = sheetName
    IN  {MonthYearHeaderOf(HeadersOf(sheet)),
         "Total Earnings", "Total Deductions", "Net Salary"}

CategoriesOf(r) ==
    {it.category : it \in SeqToSet(r.earnings) \cup SeqToSet(r.deductions)}

\* C10: in the plan built from a workbook, no record of any sheet has a
\* reserved header (the detected Month/Year header, "Total Earnings",
\* "Total Deductions", "Net Salary") as the category of an earning or of a
\* deduction, whatever the cells under these headers hold
C10_ReservedNeverCategory ==
    showConfirm =>
        \A i \in 1..Len(importPlan[1].sheets) :
            \A r \in SeqToSet(importPlan[1].sheets[i].records) :
                CategoriesOf(r) \cap ReservedOfSheet(importPlan[1].sheets[i].sheetName) = {}

\* a record was parsed from a row whose Month/Year cell cleans to a non-zero
\* number and whose "Net Salary" cell is not a number, next to a real earning
C10_Witness ==
    /\ showConfirm
    /\ Len(file.sheets) = 1
    /\ Len(importPlan[1].sheets) = 1
    /\ Len(importPlan[1].sheets[1].records) = 1
    /\ LET row == file.sheets[1].rows[1]
           my  == MonthYearHeaderOf(HeadersOf(file.sheets[1]))
       IN  /\ NumValOf(row, my) \notin {<<>>, <<0>>}
           /\ NumValOf(row, "Net Salary") = <<>>
           /\ importPlan[1].sheets[1].records[1].earnings # <<>>

\* the sheet of the selected file a plan sheet was built from
FileSheet(sheetName) ==
    CHOOSE sh \in SeqToSet(file.sheets) : sh.sheetName = sheetName

\* the plan sheets built from a sheet of exactly one data row
OneRowPlanSheets ==
    {i \in 1..Len(importPlan[1].sheets) :
        Len(FileSheet(importPlan[1].sheets[i].sheetName).rows) = 1}

\* a cell that is the number 0, or a text without any digit
RECURSIVE HasDigit(_)
HasDigit(str) ==
    IF Len(str) = 0 THEN FALSE
    ELSE SubSeq(str, 1, 1) \in {"0", "1", "2", "3", "4", "5", "6", "7", "8", "9"}
            \/ HasDigit(SubSeq(str, 2, Len(str)))

ZeroOrNotNumber(cell) ==
    IF cell.t = "num" THEN cell.n = 0 ELSE ~ HasDigit(cell.s)

\* the Month/Year labels of the inputs that name a month and a year
MonthYearLabels == {"JAN 2025", "FEB 2031", "MAR 2025"}

HasMonthYearLabel(sheet) ==
    /\ sheet.cols[1] \in DOMAIN sheet.rows[1]
    /\ sheet.rows[1][sheet.cols[1]].t = "str"
    /\ sheet.rows[1][sheet.cols[1]].s \in MonthYearLabels

NoLineItemFor(sheet, r) ==
    \A h \in SeqToSet(sheet.cols) :
        (h \notin DOMAIN sheet.rows[1] \/ ZeroOrNotNumber(sheet.rows[1][h]))
            => h \notin CategoriesOf(r)

\* C11: no parsed record holds an earning or a deduction of amount 0; a
\* cell that is empty, 0 or not a number gives no line item in either list,
\* and the row stays valid (it still gives its record)
C11_NoZeroLineItem ==
    showConfirm =>
        /\ \A r \in PlanRecords :
              \A it \in SeqToSet(r.earnings) \cup SeqToSet(r.deductions) : it.amount # 0
        /\ \A i \in OneRowPlanSheets :
              LET sheet == FileSheet(importPlan[1].sheets[i].sheetName)
              IN  /\ \A r \in SeqToSet(importPlan[1].sheets[i].records) :
                        NoLineItemFor(sheet, r)
                  /\ HasMonthYearLabel(sheet)
                        => Len(importPlan[1].sheets[i].records) = 1

\* a row with a 0 under one category and a text under the other gave a
\* record without line items
C11_Witness ==
    /\ showConfirm
    /\ Len(file.sheets) = 1
    /\ Len(file.sheets[1].rows) = 1
    /\ "Basic Salary" \in DOMAIN file.sheets[1].rows[1]
    /\ "Income Tax" \in DOMAIN file.sheets[1].rows[1]
    /\ file.sheets[1].rows[1]["Basic Salary"] = NumCell(0)
    /\ file.sheets[1].rows[1]["Income Tax"] = StrCell("n/a")
    /\ Len(importPlan[1].sheets[1].records) = 1
    /\ importPlan[1].sheets[1].records[1].earnings = <<>>
    /\ importPlan[1].sheets[1].records[1].deductions = <<>>

EarningCategories(r) == {it.category : it \in SeqToSet(r.earnings)}

DeductionCategories(r) == {it.category : it \in SeqToSet(r.deductions)}

\* the columns of a one-row sheet that hold a non-zero number and are not
\* reserved
CategoryColumns(sheet) ==
    {h \in SeqToSet(sheet.cols) :
        /\ h \in DOMAIN sheet.rows[1]
        /\ ~ ZeroOrNotNumber(sheet.rows[1][h])
        /\ h \notin ReservedOfSheet(sheet.sheetName)}

KnownEarnings(org) ==
    IF org \in DOMAIN ORG_EARNINGS THEN SeqToSet(ORG_EARNINGS[org]) ELSE {}

KnownDeductions(org) ==
    IF org \in DOMAIN ORG_DEDUCTIONS THEN SeqToSet(ORG_DEDUCTIONS[org]) ELSE {}

\* C12: for an organization with category lists, a non-reserved column
\* whose header is an entry of the earning list is an earning, even when
\* the header holds a deduction keyword or is in the deduction list too; a
\* header of the deduction list alone is a deduction
C12_ListsBeforeKeywords ==
    showConfirm =>
        \A i \in OneRowPlanSheets :
            LET sheet == FileSheet(importPlan[1].sheets[i].sheetName)
            IN  \A r \in SeqToSet(importPlan[1].sheets[i].records) :
                    \A h \in CategoryColumns(sheet) :
                        /\ h \in KnownEarnings(sheet.sheetName)
                              => /\ h \in EarningCategories(r)
                                 /\ h \notin DeductionCategories(r)
                        /\ h \in KnownDeductions(sheet.sheetName) \ KnownEarnings(sheet.sheetName)
                              => /\ h \in DeductionCategories(r)
                                 /\ h \notin EarningCategories(r)

\* a TCS sheet with 7 under "Conveyance Taxable", an entry of the earning
\* list that holds the keyword "tax", gave an earning
C12_Witness ==
    /\ showConfirm
    /\ Len(file.sheets) = 1
    /\ file.sheets[1].sheetName = "TCS"
    /\ file.sheets[1].cols = <<"Month Year", "Conveyance Taxable">>
    /\ Len(importPlan[1].sheets[1].records) = 1
    /\ importPlan[1].sheets[1].records[1].earnings =
          <<[category |-> "Conveyance Taxable", amount |-> 7]>>
    /\ importPlan[1].sheets[1].records[1].deductions = <<>>

\* the lower-cased header holds one of the deduction keywords
MatchesKeyword(h) ==
    \E kw \in SeqToSet(deductionKeywords) : includes(toLowerCase(h), kw)

\* C13: a non-reserved column whose header is in neither category list of
\* the organization (always so for a sheet name without a registry entry)
\* is a deduction exactly when its lower-cased header matches a deduction
\* keyword, and an earning otherwise; with a non-zero number in its cell it
\* lands in exactly one of the two lists
C13_KeywordHeuristic ==
    showConfirm =>
        \A i \in OneRowPlanSheets :
            LET sheet == FileSheet(importPlan[1].sheets[i].sheetName)
            IN  \A r \in SeqToSet(importPlan[1].sheets[i].records) :
                    \A h \in CategoryColumns(sheet) \
                            (KnownEarnings(sheet.sheetName) \cup KnownDeductions(sheet.sheetName)) :
                        /\ (h \in DeductionCategories(r)) = MatchesKeyword(h)
                        /\ (h \in EarningCategories(r)) = ~ MatchesKeyword(h)

\* a sheet without a registry entry gave a deduction for "Esi", whose
\* header matches a keyword only once lower-cased
C13_Witness ==
    /\ showConfirm
    /\ Len(file.sheets) = 1
    /\ file.sheets[1].sheetName = "ACME"
    /\ file.sheets[1].cols = <<"Month Year", "Esi">>
    /\ Len(importPlan[1].sheets[1].records) = 1
    /\ importPlan[1].sheets[1].records[1].deductions =
          <<[category |-> "Esi", amount |-> 7]>>
    /\ importPlan[1].sheets[1].records[1].earnings = <<>>

\* the invalid rows the plan lists for a sheet
InvalidRowsOf(sheetName) ==
    SelectSeq(importPlan[1].invalidRows, LAMBDA x : x.sheetName = sheetName)

\* the Month/Year cell of a data row is blank (no key) or the empty text;
\* the Month/Year column is the first column of every input sheet
MonthYearCellEmpty(sheet, k) ==
    \/ sheet.cols[1] \notin DOMAIN sheet.rows[k]
    \/ /\ sheet.rows[k][sheet.cols[1]].t = "str"
       /\ sheet.rows[k][sheet.cols[1]].s = ""

RowsPartitioned(planSheet, sheet) ==
    LET invalid == InvalidRowsOf(sheet.sheetName)
    IN  /\ planSheet.skippedRows = Len(invalid)
        /\ Len(planSheet.records) + planSheet.skippedRows = Len(sheet.rows)
        /\ \A a \in 1..Len(invalid) :
              /\ invalid[a].excelRowNumber \in 2..(Len(sheet.rows) + 1)
              /\ \A b \in 1..Len(invalid) :
                    a # b => invalid[a].excelRowNumber # invalid[b].excelRowNumber

EmptyMonthYearReported(sheet) ==
    \A k \in 1..Len(sheet.rows) :
        MonthYearCellEmpty(sheet, k) =>
            \E x \in SeqToSet(InvalidRowsOf(sheet.sheetName)) :
                /\ x.excelRowNumber = k + 1
                /\ x.reason = "Missing Month/Year value"

\* C14: the data rows of a sheet are partitioned into records and invalid
\* rows: skippedRows is the number of the sheet's invalid rows, records
\* plus skippedRows is the number of data rows, and a row whose Month/Year
\* cell is empty or missing is an invalid row with the reason
\* "Missing Month/Year value"
C14_RowsPartitioned ==
    showConfirm =>
        \A i \in 1..Len(importPlan[1].sheets) :
            LET sheet == FileSheet(importPlan[1].sheets[i].sheetName)
            IN  /\ RowsPartitioned(importPlan[1].sheets[i], sheet)
                /\ EmptyMonthYearReported(sheet)

\* the partition alone, without the reason of the invalid rows
RowsPartitionedOnly ==
    showConfirm =>
        \A i \in 1..Len(importPlan[1].sheets) :
            RowsPartitioned(importPlan[1].sheets[i],
                            FileSheet(importPlan[1].sheets[i].sheetName))

\* the names of a sequence of sheets, in order
SheetNames(q) == [i \in 1..Len(q) |-> q[i].sheetName]

\* a sheet gives a record or an invalid row exactly when it has a data row
SheetsWithData == SelectSeq(file.sheets, LAMBDA sh : Len(sh.rows) > 0)

\* C15: the sheets of the plan are the sheets of the workbook that gave at
\* least one record or one invalid row, in the workbook's sheet order;
\* a sheet that gave neither is absent
C15_PlanSheets ==
    showConfirm =>
        /\ SheetNames(importPlan[1].sheets) = SheetNames(SheetsWithData)
        /\ \A i \in 1..Len(importPlan[1].sheets) :
              Len(importPlan[1].sheets[i].records)
                  + Len(InvalidRowsOf(importPlan[1].sheets[i].sheetName)) > 0

\* a workbook of a cover page and a sheet with nothing but an invalid row
\* gave a plan of that one sheet
C15_Witness ==
    /\ showConfirm
    /\ SheetNames(file.sheets) = <<"Cover", "ACME">>
    /\ SheetNames(importPlan[1].sheets) = <<"ACME">>
    /\ importPlan[1].sheets[1].records = <<>>

\* the record the worked example expects
ExampleRecord ==
    [organization    |-> "TCS",
     month           |-> 1,
     year            |-> 2025,
     earnings        |-> <<[category |-> "Basic Salary", amount |-> 80000],
                           [category |-> "HRA", amount |-> 32000]>>,
     deductions      |-> <<[category |-> "Income Tax", amount |-> 18000],
                           [category |-> "Provident Fund", amount |-> 9600]>>,
     totalEarnings   |-> 112000,
     totalDeductions |-> 27600,
     netSalary       |-> 84400]

\* C20: the sheet "TCS" with the row JAN 2025, Basic Salary 80000, HRA
\* 32000, Income Tax 18000, Provident Fund 9600, Total Earnings 112000,
\* Total Deductions 27600, Net Salary 84400 gives one record: month 1, year
\* 2025, organization TCS, the two earnings and the two deductions in
\* column order, and the three totals as declared
C20_WorkedExample ==
    (showConfirm /\ file = ExampleWorkbook) =>
        /\ Len(importPlan[1].sheets) = 1
        /\ importPlan[1].sheets[1].sheetName = "TCS"
        /\ importPlan[1].sheets[1].records = <<ExampleRecord>>
        /\ importPlan[1].sheets[1].skippedRows = 0
        /\ importPlan[1].invalidRows = <<>>

\* the plan of the worked example is on display, with a record in it
C20_Witness ==
    /\ showConfirm
    /\ file = ExampleWorkbook
    /\ importPlan[1].totalRecordsToImport = 1

(***************************************************************************)
(* Properties of Backup & Restore                                          *)
(***************************************************************************)
\* the three checks: size at most 10 MB, parses as JSON, an object of version 1
PassedAllChecks(f) ==
    f.size <= MAX_FILE_SIZE /\ f.parses /\ f.isObject /\ f.version = 1

\* this step issues the wipe_all_salary_data call or the budget_history delete
DestructiveCallIssued ==
    /\ Len(restoreCalls') = Len(restoreCalls) + 1
    /\ restoreCalls'[Len(restoreCalls')].call \in
           {"wipe_all_salary_data", "budget_history.delete"}

WipeOnlyAfterChecks ==
    DestructiveCallIssued =>
        /\ backupStatus = "confirmed"
        /\ PassedAllChecks(backupFile[1])

\* the file selected last failed a check, or its dialog is open or was cancelled
RejectedOrNotConfirmed ==
    /\ backupFile # <<>>
    /\ \/ ~ PassedAllChecks(backupFile[1])
       \/ backupStatus \in {"shown", "cancelled"}

\* C16: the wipe_all_salary_data call and the budget_history delete are issued
\* only for a file that passed the size, JSON and version checks and whose
\* dialog the user confirmed; after a file that fails a check, and while the
\* dialog is open or after it was cancelled, every table is as it was when
\* the file was selected.
C16_WipeAfterChecks ==
    /\ [](RejectedOrNotConfirmed => AllTables = accountBefore[1])
    /\ [][WipeOnlyAfterChecks]_vars

\* the second file selected in a populated account was confirmed and its wipe
\* emptied the salary records, after a first file that was rejected
C16_Witness ==
    /\ restores = 2
    /\ errorToasts = 1
    /\ Len(restoreCalls) = 1
    /\ restoreCalls[1].ok
    /\ accountBefore[1][1] # {}
    /\ salary_records = {}

\* one call of the order the restore is specified to follow
ExpectedCall(name, i) == <<[call |-> name, i |-> i]>>

RECURSIVE ExpectedTemplateCalls(_, _)
ExpectedTemplateCalls(templates, i) ==
    IF i > Len(templates) THEN <<>>
    ELSE ExpectedCall("organization_templates.insert", i)
         \o (IF templates[i].template_earnings # <<>>
             THEN ExpectedCall("template_earnings.insert", i) ELSE <<>>)
         \o (IF templates[i].template_deductions # <<>>
             THEN ExpectedCall("template_deductions.insert", i) ELSE <<>>)
         \o ExpectedTemplateCalls(templates, i + 1)

RECURSIVE ExpectedRecordCalls(_, _)
ExpectedRecordCalls(recs, i) ==
    IF i > Len(recs) THEN <<>>
    ELSE ExpectedCall("salary_records.insert", i)
         \o (IF recs[i].earnings # <<>> THEN ExpectedCall("earnings.insert", i) ELSE <<>>)
         \o (IF recs[i].deductions # <<>> THEN ExpectedCall("deductions.insert", i) ELSE <<>>)
         \o ExpectedRecordCalls(recs, i + 1)

\* the whole restore of the backup file f, in the specified order
ExpectedCalls(f) ==
    ExpectedCall("wipe_all_salary_data", 0)
    \o ExpectedCall("budget_history.delete", 0)
    \o ExpectedTemplateCalls(f.organizationTemplates, 1)
    \o ExpectedRecordCalls(f.salaryRecords, 1)
    \o [i \in 1..Len(f.employmentHistory) |->
            [call |-> "employment_history.insert", i |-> i]]
    \o [i \in 1..Len(f.budgetHistory) |-> [call |-> "budget_history.insert", i |-> i]]
    \o (IF f.profile # <<>> THEN ExpectedCall("profiles.upsert", 1) ELSE <<>>)

\* the calls issued so far are the first calls of the order, and every call
\* before the last one succeeded
IssuedInOrder(issued, expected) ==
    /\ Len(issued) <= Len(expected)
    /\ \A k \in 1..Len(issued) :
          /\ issued[k].call = expected[k].call
          /\ issued[k].i = expected[k].i
          /\ k < Len(issued) => issued[k].ok

\* C17: the persistence calls of a restore are issued in the order wipe,
\* templates, salary records each with its own line items, employment
\* history, budget history, profile; a call is issued only after every call
\* before it in that order succeeded.
C17_RestoreOrder ==
    restoreCalls # <<>> => IssuedInOrder(restoreCalls, ExpectedCalls(backupFile[1]))

\* a restore of the backup with two templates, two salary records, one
\* employment entry, two budget entries and a profile ran to its end
C17_Witness ==
    /\ backupStatus = "restored"
    /\ Len(restoreCalls) = 15
    /\ restoreCalls[15].call = "profiles.upsert"
    /\ restoreCalls[15].ok

\* a salary record row without its generated id
WithoutId(r) ==
    [organization |-> r.organization, month |-> r.month, year |-> r.year,
     total_earnings |-> r.total_earnings, total_deductions |-> r.total_deductions,
     net_salary |-> r.net_salary, gross_salary |-> r.gross_salary]

\* the salary records and the templates are exactly those of the backup file f
SalaryRecordsFrom(f) ==
    {WithoutId(r) : r \in salary_records} =
        {WithoutId(f.salaryRecords[i]) : i \in 1..Len(f.salaryRecords)}

TemplatesFrom(f) ==
    organization_templates =
        {[id |-> f.organizationTemplates[i].id, name |-> f.organizationTemplates[i].name] :
             i \in 1..Len(f.organizationTemplates)}

\* the last restore ran to its end without an error
RestoreSucceeded == backupStatus = "restored"

\* after a successful restore the salary records, templates and budget
\* history are exactly those of the backup
WipedKindsFromBackup ==
    RestoreSucceeded =>
        /\ SalaryRecordsFrom(backupFile[1])
        /\ TemplatesFrom(backupFile[1])
        /\ budget_history = backupFile[1].budgetHistory

\* C18: after a backup restore that completes successfully, the salary
\* records, templates, employment-history entries and budget-history entries
\* of the account are exactly those of the backup file; no entry of these
\* four kinds survives from before the restore.
C18_OnlyBackupData ==
    RestoreSucceeded =>
        /\ SalaryRecordsFrom(backupFile[1])
        /\ TemplatesFrom(backupFile[1])
        /\ employment_history = backupFile[1].employmentHistory
        /\ budget_history = backupFile[1].budgetHistory

(***************************************************************************)
(* Properties of the manual edit                                           *)
(***************************************************************************)
\* the earnings and deductions the record of the dialog holds now
ItemsNow ==
    [earnings   |-> RowsOf(earnings, "salary_record_id", editRecordId),
     deductions |-> RowsOf(deductions, "salary_record_id", editRecordId)]

\* the earnings and deductions the user entered, as rows of the record
ItemsEdited ==
    [earnings   |-> LineItemRows(editRecordId, editedEarnings, 1),
     deductions |-> LineItemRows(editRecordId, editedDeductions, 1)]

\* an execution of handleSave has ended
SaveEnded == pc = "idle" /\ itemsBefore # <<>>

\* C19: replacing the line items of a salary record is all-or-nothing: when
\* an execution of handleSave has ended, with or without a failed persistence
\* call, the record holds exactly the earnings and deductions it held before
\* the execution or exactly the edited ones, never none and never a mixture.
C19_ReplaceAllOrNothing ==
    SaveEnded => ItemsNow = itemsBefore[1] \/ ItemsNow = ItemsEdited

(***************************************************************************)
(* Further properties of the import                                        *)
(***************************************************************************)
\* an amount within 0..100,000,000
WithinCap(amount) == amount >= 0 /\ amount <= MAX_AMOUNT

\* the persisted line items are all within the cap
LineItemsWithinCap ==
    /\ \A i \in 1..Len(earnings) : WithinCap(earnings[i].amount)
    /\ \A i \in 1..Len(deductions) : WithinCap(deductions[i].amount)

\* month, year, total earnings and total deductions of every persisted
\* record, and every persisted line item, are within their bounds
WrittenWithinCheckedBounds ==
    /\ \A r \in salary_records :
          /\ r.month >= 1 /\ r.month <= 12
          /\ r.year >= MIN_YEAR /\ r.year <= MAX_YEAR
          /\ WithinCap(r.total_earnings)
          /\ WithinCap(r.total_deductions)
    /\ LineItemsWithinCap

\* C21: every salary record the executor has written has its month in 1..12,
\* its year in 2000..2100, and its total earnings, total deductions, net
\* salary and every earning and deduction amount within 0..100,000,000.
C21_WrittenWithinBounds ==
    /\ WrittenWithinCheckedBounds
    /\ \A r \in salary_records : WithinCap(r.net_salary)

\* the executor made the last call of a plan that it also executed just
\* before, both times without a storage error
SamePlanExecutedTwice ==
    /\ pc = "sheetLoop"
    /\ si > Len(sheets)
    /\ imported # <<>>
    /\ imported[1].plan = importPlan[1]

\* executed twice, the salary records and the templates with their
\* categories are as they were after the first execution
RecordsAndTemplatesIdempotent ==
    SamePlanExecutedTwice =>
        /\ salary_records = imported[1].db[1]
        /\ organization_templates = imported[1].db[4]
        /\ template_earnings = imported[1].db[5]
        /\ template_deductions = imported[1].db[6]

\* C22: executing the same import plan twice in succession without storage
\* errors leaves the salary records, their earnings and deductions and the
\* organization templates as one execution left them.
C22_Idempotent == SamePlanExecutedTwice => db = imported[1].db

(***************************************************************************)
(* Further properties of the plan build                                    *)
(***************************************************************************)
\* every data row of the sheet has a Month/Year label that names a month
\* and a year: every row is valid
AllRowsLabelled(sheet) ==
    \A k \in 1..Len(sheet.rows) :
        /\ sheet.cols[1] \in DOMAIN sheet.rows[k]
        /\ sheet.rows[k][sheet.cols[1]].t = "str"
        /\ sheet.rows[k][sheet.cols[1]].s \in MonthYearLabels

\* the columns of a row that are not reserved and hold a non-zero number,
\* each with its number
ExpectedItems(sheet, row) ==
    {<<h, NumValOf(row, h)[1]>> :
        h \in {c \in SeqToSet(sheet.cols) :
                  /\ c \notin {sheet.cols[1], "Total Earnings", "Total Deductions",
                               "Net Salary"}
                  /\ NumValOf(row, c) # <<>>
                  /\ NumValOf(row, c) # <<0>>}}

\* the line items of a record, each as category and amount
ItemsOfRecord(r) ==
    {<<it.category, it.amount>> : it \in SeqToSet(r.earnings) \cup SeqToSet(r.deductions)}

\* the record of a row has one line item per expected column and no other
RowGivesItems(sheet, row, r) ==
    /\ ItemsOfRecord(r) = ExpectedItems(sheet, row)
    /\ Len(r.earnings) + Len(r.deductions) = Cardinality(ExpectedItems(sheet, row))

SheetGivesItems(sheet, planSheet) ==
    /\ Len(planSheet.records) = Len(sheet.rows)
    /\ \A k \in 1..Len(sheet.rows) :
          RowGivesItems(sheet, sheet.rows[k], planSheet.records[k])

\* every row of the sheet has a cell in each column the sheet's rows use
FirstRowHasEveryKey(sheet) ==
    \A k \in 1..Len(sheet.rows) : DOMAIN sheet.rows[k] \subseteq DOMAIN sheet.rows[1]

\* the line items are right in the sheets whose first row leaves no cell
\* blank that a later row fills
ItemsRightWhenFirstRowFull ==
    showConfirm =>
        \A i \in 1..Len(importPlan[1].sheets) :
            (/\ AllRowsLabelled(FileSheet(importPlan[1].sheets[i].sheetName))
             /\ FirstRowHasEveryKey(FileSheet(importPlan[1].sheets[i].sheetName)))
                => SheetGivesItems(FileSheet(importPlan[1].sheets[i].sheetName),
                                   importPlan[1].sheets[i])

\* C23: for every valid row, each column that is not reserved and whose cell
\* coerces to a non-zero number gives exactly one line item of the row's
\* record, with the header as category and the number as amount, and the
\* record has no other line item; also for a column whose cell is empty in
\* the first data row of the sheet.
C23_EveryColumnOneItem ==
    showConfirm =>
        \A i \in 1..Len(importPlan[1].sheets) :
            AllRowsLabelled(FileSheet(importPlan[1].sheets[i].sheetName))
                => SheetGivesItems(FileSheet(importPlan[1].sheets[i].sheetName),
                                   importPlan[1].sheets[i])

RECURSIVE SumOfRecords(_, _)
SumOfRecords(planSheets, i) ==
    IF i > Len(planSheets) THEN 0
    ELSE Len(planSheets[i].records) + SumOfRecords(planSheets, i + 1)

RECURSIVE SumOfSkipped(_, _)
SumOfSkipped(planSheets, i) ==
    IF i > Len(planSheets) THEN 0
    ELSE planSheets[i].skippedRows + SumOfSkipped(planSheets, i + 1)

\* the name of every sheet, as often as the sheet has skipped rows, in sheet order
RECURSIVE NamesOfSkipped(_, _)
NamesOfSkipped(planSheets, i) ==
    IF i > Len(planSheets) THEN <<>>
    ELSE [k \in 1..planSheets[i].skippedRows |-> planSheets[i].sheetName]
         \o NamesOfSkipped(planSheets, i + 1)

\* the invalid rows are grouped by sheet in sheet order, and within a sheet
\* they are in row order
InvalidRowsConcatenated(plan) ==
    /\ [k \in 1..Len(plan.invalidRows) |-> plan.invalidRows[k].sheetName]
           = NamesOfSkipped(plan.sheets, 1)
    /\ \A a, b \in 1..Len(plan.invalidRows) :
          (a < b /\ plan.invalidRows[a].sheetName = plan.invalidRows[b].sheetName)
              => plan.invalidRows[a].excelRowNumber < plan.invalidRows[b].excelRowNumber

\* C24: in every built plan totalRecordsToImport is the sum of the sheets'
\* record counts, totalSkippedRows is the sum of the sheets' skippedRows and
\* the length of invalidRows, and invalidRows is the concatenation of the
\* sheets' invalid rows in sheet order, each with the name of its own sheet.
C24_PlanTotals ==
    importPlan # <<>> =>
        /\ importPlan[1].totalRecordsToImport = SumOfRecords(importPlan[1].sheets, 1)
        /\ importPlan[1].totalSkippedRows = SumOfSkipped(importPlan[1].sheets, 1)
        /\ importPlan[1].totalSkippedRows = Len(importPlan[1].invalidRows)
        /\ InvalidRowsConcatenated(importPlan[1])

\* a plan of two sheets that both gave an invalid row, one of them a record
C24_Witness ==
    /\ importPlan # <<>>
    /\ SheetNames(importPlan[1].sheets) = <<"ACME", "TCS">>
    /\ importPlan[1].totalRecordsToImport = 1
    /\ importPlan[1].totalSkippedRows = 2
    /\ importPlan[1].invalidRows[1].sheetName = "ACME"
    /\ importPlan[1].invalidRows[2].sheetName = "TCS"

\* this step is a call of the restore, later than the wipe, that fails
CallFailsAfterWipe ==
    /\ Len(restoreCalls') = Len(restoreCalls) + 1
    /\ ~ restoreCalls'[Len(restoreCalls')].ok
    /\ restoreCalls'[Len(restoreCalls')].call # "wipe_all_salary_data"

\* the failing call changes no table and ends the restore
RestoreEndsAtFailure ==
    /\ AllTables' = AllTables
    /\ pc' = "idle"
    /\ ~ isBackupImporting'
    /\ pendingBackupData' = <<>>
    /\ backupImportSummary' = <<>>

\* after the failure no call is issued and no table changes, until another
\* backup file is selected
NothingAfterFailure ==
    backupStatus = "failed" =>
        /\ AllTables' = AllTables
        /\ restoreCalls' = restoreCalls \/ restoreCalls' = <<>>

\* C25: a persistence call that fails during a backup restore after the wipe
\* ends the restore: no later call is issued, no table is changed by the
\* failure or after it (nothing inserted is rolled back, nothing wiped is
\* brought back), the importing flag is cleared, the pending backup data is
\* discarded and no restore summary is set.
C25_FailureStopsRestore ==
    [][(CallFailsAfterWipe => RestoreEndsAtFailure) /\ NothingAfterFailure]_vars

\* the insert of the first salary record failed: the templates of the backup
\* stay, the records of the account before the restore are gone
C25_Witness ==
    /\ backupStatus = "failed"
    /\ Len(restoreCalls) > 2
    /\ restoreCalls[Len(restoreCalls)].call = "salary_records.insert"
    /\ accountBefore[1][1] # {}
    /\ salary_records = {}
    /\ organization_templates # {}
    /\ organization_templates # accountBefore[1][4]
    /\ ~ isBackupImporting
    /\ pendingBackupData = <<>>
    /\ backupImportSummary = <<>>

LineItemInserts ==
    {"template_earnings.insert", "template_deductions.insert",
     "earnings.insert", "deductions.insert"}

\* the k-th call of the order is the last write of a top-level entity
CompletesEntity(expected, k) ==
    /\ expected[k].call \notin {"wipe_all_salary_data", "budget_history.delete"}
    /\ k = Len(expected) \/ expected[k + 1].call \notin LineItemInserts

\* the top-level entities all of whose writes were issued and succeeded
EntitiesCompleted(issued, expected) ==
    Cardinality({k \in 1..Len(issued) : issued[k].ok /\ CompletesEntity(expected, k)})

\* templates + salary records + employment entries + budget entries + profile
TotalAtSelection(f) ==
    Len(f.organizationTemplates) + Len(f.salaryRecords) + Len(f.employmentHistory)
    + Len(f.budgetHistory) + (IF f.profile # <<>> THEN 1 ELSE 0)

ProcessedCountsEntities ==
    isBackupImporting =>
        /\ backupImportProcessed
               = EntitiesCompleted(restoreCalls, ExpectedCalls(backupFile[1]))
        /\ backupImportTotal = TotalAtSelection(backupFile[1])
        /\ backupImportProcessed <= backupImportTotal

\* the step that ends the try block: with the increment of the last call the
\* counter has reached the total (the finally block then resets both to 0)
ProcessedReachesTotal ==
    (isBackupImporting /\ backupStatus' = "restored") =>
        /\ backupImportProcessed
           + (IF restoreCalls' # restoreCalls
                 /\ CompletesEntity(ExpectedCalls(backupFile[1]), Len(restoreCalls'))
              THEN 1 ELSE 0) = backupImportTotal
        /\ EntitiesCompleted(restoreCalls', ExpectedCalls(backupFile[1]))
               = TotalAtSelection(backupFile[1])

OneTemplatePerName(templates) ==
    \A a, b \in templates : a.name = b.name => a = b

\* the steps of the executor that write the template of the current sheet
TemplatePcs ==
    {"insertTemplate", "deleteTemplateEarnings", "deleteTemplateDeductions",
     "insertTemplateEarnings", "insertTemplateDeductions"}

\* a template is created only for a sheet with records whose name no
\* template has, and it is the one template created by the step
TemplateCreatedOnlyWhenAbsent ==
    organization_templates' # organization_templates =>
        /\ pc = "insertTemplate"
        /\ Len(records) > 0
        /\ \A t \in organization_templates : t.name # sheets[si].sheetName
        /\ \E t \in organization_templates' :
              /\ t \notin organization_templates
              /\ t.name = sheets[si].sheetName
              /\ organization_templates' = organization_templates \cup {t}

\* the category rows of the templates other than template id stay
OtherCategoriesKept(id) ==
    /\ SelectSeq(template_earnings', LAMBDA r : r.template_id # id)
           = SelectSeq(template_earnings, LAMBDA r : r.template_id # id)
    /\ SelectSeq(template_deductions', LAMBDA r : r.template_id # id)
           = SelectSeq(template_deductions, LAMBDA r : r.template_id # id)

\* category rows change only for the template of a sheet with records
CategoriesChangedOnlyForSheet ==
    <<template_earnings, template_deductions>>' # <<template_earnings, template_deductions>> =>
        /\ pc \in TemplatePcs
        /\ Len(records) > 0
        /\ \E t \in organization_templates :
              /\ t.name = sheets[si].sheetName
              /\ t.id = template
              /\ OtherCategoriesKept(t.id)

\* C29: after any sequence of spreadsheet imports there is at most one
\* template per organization name; an import creates a template for a sheet
\* only when no template of exactly that name exists, and a sheet without
\* records creates and changes no template.
C29_OneTemplatePerOrganization ==
    [][/\ OneTemplatePerName(organization_templates')
       /\ TemplateCreatedOnlyWhenAbsent
       /\ CategoriesChangedOnlyForSheet]_vars

\* the second import, of a workbook whose sheet TCS has no record and whose
\* sheet ACME has one, has run to its end: one template of each name
C29_Witness ==
    /\ uploads = 2
    /\ imported # <<>>
    /\ file.name = "invalid.xlsx"
    /\ pc = "idle"
    /\ {t.name : t \in organization_templates} = {"TCS", "ACME"}
    /\ Cardinality(organization_templates) = 2

RECURSIVE CountWritable(_, _)
CountWritable(recs, i) ==
    IF i > Len(recs) THEN 0
    ELSE (IF SkippedAtWriteTime(recs[i]) THEN 0 ELSE 1) + CountWritable(recs, i + 1)

\* the records of the plan that the executor upserts when no call fails
RECURSIVE UpsertsOfPlan(_, _)
UpsertsOfPlan(planSheets, i) ==
    IF i > Len(planSheets) THEN 0
    ELSE CountWritable(planSheets[i].records, 1) + UpsertsOfPlan(planSheets, i + 1)

\* the step that ends an execution
ExecutionEnds == pc \in ExecutorPcs /\ pc' \notin ExecutorPcs

\* an execution ends after the last sheet with a summary that counts the
\* upserted records, or at a failed call without a summary; either way the
\* processing flag is cleared
EndsWithSummaryOrError ==
    ExecutionEnds =>
        /\ pc' = "idle"
        /\ ~ isProcessing'
        /\ \/ /\ ~ aborted'
              /\ pc = "sheetLoop"
              /\ si > Len(sheets)
              /\ importSummary' # <<>>
              /\ importSummary'[1].totalRecords = recordsWritten
              /\ importSummary'[1].totalRecords = UpsertsOfPlan(sheets, 1)
              /\ successToasts' = successToasts + 1
           \/ /\ aborted'
              /\ calls' = calls + 1
              /\ errorToasts' = errorToasts + 1
              /\ importSummary' = <<>>
              /\ successToasts' = successToasts

\* C28: every import execution that starts ends, after the last record of
\* the last sheet or at the first storage error, with the processing flag
\* false; the summary is produced exactly when no call failed, and its total
\* record count is the number of records whose upsert succeeded.
C28_ExecutionTerminates ==
    /\ (pc \in ExecutorPcs) ~> (pc = "idle" /\ ~ isProcessing)
    /\ [][EndsWithSummaryOrError]_vars

\* an execution of the workbook with out-of-range rows ran to its end: the
\* summary counts the upserted records, fewer than the plan holds
C28_Witness ==
    /\ Finished
    /\ file.name = "bounds.xlsx"
    /\ importSummary # <<>>
    /\ importSummary[1].totalRecords > 0
    /\ importSummary[1].totalRecords < importPlan[1].totalRecordsToImport
    /\ importSummary[1].totalRecords = recordsWritten

(***************************************************************************)
(* ManualEntryForm: the fetch of the templates when the form is mounted,   *)
(* and handleTemplateSelect, one action per await.  Template ids are the   *)
(* strings the Select component passes; "none" is its first item.          *)
(***************************************************************************)
MaxSelections == 3

\* a call that waits for a response: the templateId it was made for, the
\* selection it belongs to, where it waits, the earnings it has fetched
Fetch(templateId, sel, at, earningsData) ==
    [templateId |-> templateId, sel |-> sel, pc |-> at, earningsData |-> earningsData]

\* fetchTemplates of the effect
FetchTemplates == Fetch("", 0, "fetchTemplates", <<>>)

\* select category from ... where template_id = templateId order by created_at
TemplateCategories(rows, templateId) ==
    [k \in DOMAIN RowsOf(rows, "template_id", templateId) |->
         RowsOf(rows, "template_id", templateId)[k].category]

\* one form row per category of the template
FormRows(categories) ==
    [k \in DOMAIN categories |-> [category |-> categories[k], amount |-> "0", description |-> ""]]

\* the single default row
DefaultRow(category, amount) ==
    <<[category |-> category, amount |-> amount, description |-> ""]>>

\* fetches without its k-th call
WithoutFetch(k) == SubSeq(fetches, 1, k - 1) \o SubSeq(fetches, k + 1, Len(fetches))

\* history: what became of selection sel
Outcome(sel, outcome) == [selections EXCEPT ![sel].outcome = outcome]

\* select id, name from organization_templates order by name
FetchTemplatesDone ==
    \E k \in DOMAIN fetches :
        /\ fetches[k].pc = "fetchTemplates"
        /\ fetches' = WithoutFetch(k)
        /\ \E ok \in BOOLEAN :
              IF ok
              THEN \E rows \in Orderings(organization_templates) :
                      /\ \A i, j \in DOMAIN rows :
                            i < j => StringLess(rows[i].name, rows[j].name)
                      /\ formTemplates' = rows
              ELSE UNCHANGED formTemplates
        /\ UNCHANGED <<dbVars, uiVars, toastVars, localVars, exportedFile, historyVars,
                       backupVars, editVars, imported, exportVars, selectedTemplateId,
                       formOrganization, formEarnings, formDeductions,
                       templateEarningCategories, templateDeductionCategories,
                       latestTemplateIdRef, selections>>

\* the items of the Select: "none" and the templates that were fetched
SelectItems == {"none"} \cup {formTemplates[k].id : k \in DOMAIN formTemplates}

\* handleTemplateSelect up to its first await; onValueChange is not called
\* for the item that is selected already
HandleTemplateSelect(templateId) ==
    /\ templateId # selectedTemplateId
    /\ Len(selections) < MaxSelections
    /\ selectedTemplateId' = templateId
    /\ latestTemplateIdRef' = <<templateId>>
    /\ IF templateId = "none"
       THEN /\ formOrganization' = ""
            /\ formEarnings' = DefaultRow("Basic Salary", "0")
            /\ formDeductions' = DefaultRow("Provident Fund (PF)", "0")
            /\ templateEarningCategories' = <<>>
            /\ templateDeductionCategories' = <<>>
            /\ selections' = Append(selections, [templateId |-> templateId, outcome |-> "reset"])
            /\ UNCHANGED fetches
       ELSE /\ formOrganization' =
                 IF \E k \in DOMAIN formTemplates : formTemplates[k].id = templateId
                 THEN (CHOOSE t \in {formTemplates[k] : k \in DOMAIN formTemplates} :
                           t.id = templateId).name
                 ELSE formOrganization
            /\ fetches' = Append(fetches,
                              Fetch(templateId, Len(selections) + 1, "fetchEarnings", <<>>))
            /\ selections' = Append(selections, [templateId |-> templateId, outcome |-> "pending"])
            /\ UNCHANGED <<formEarnings, formDeductions, templateEarningCategories,
                           templateDeductionCategories>>
    /\ UNCHANGED <<dbVars, uiVars, toastVars, localVars, exportedFile, historyVars,
                   backupVars, editVars, imported, exportVars, formTemplates>>

\* the response to the fetch of the template's earnings
TemplateEarningsFetched ==
    \E k \in DOMAIN fetches :
        /\ fetches[k].pc = "fetchEarnings"
        /\ \E ok \in BOOLEAN :
              IF ok
              THEN /\ fetches' =
                        [fetches EXCEPT ![k] =
                            Fetch(fetches[k].templateId, fetches[k].sel, "fetchDeductions",
                                  TemplateCategories(template_earnings, fetches[k].templateId))]
                   /\ UNCHANGED <<errorToasts, selections>>
              ELSE /\ errorToasts' = errorToasts + 1
                   /\ fetches' = WithoutFetch(k)
                   /\ selections' = Outcome(fetches[k].sel, "failed")
        /\ UNCHANGED <<dbVars, uiVars, successToasts, localVars, exportedFile, historyVars,
                       backupVars, editVars, imported, exportVars, formTemplates,
                       selectedTemplateId, formOrganization, formEarnings, formDeductions,
                       templateEarningCategories, templateDeductionCategories,
                       latestTemplateIdRef>>

\* "Populate form"
PopulateForm(earningsData, deductionsData) ==
    /\ IF Len(earningsData) > 0
       THEN /\ formEarnings' = FormRows(earningsData)
            /\ templateEarningCategories' = earningsData
       ELSE /\ formEarnings' = DefaultRow("Basic Salary", "")
            /\ templateEarningCategories' = <<>>
    /\ IF Len(deductionsData) > 0
       THEN /\ formDeductions' = FormRows(deductionsData)
            /\ templateDeductionCategories' = deductionsData
       ELSE /\ formDeductions' = DefaultRow("Provident Fund (PF)", "")
            /\ templateDeductionCategories' = <<>>
    /\ successToasts' = successToasts + 1

\* latestTemplateIdRef.current === currentTemplateId
IsLatest(templateId) == latestTemplateIdRef = <<templateId>>

\* the response to the fetch of the template's deductions, and the rest of
\* handleTemplateSelect
TemplateDeductionsFetched ==
    \E k \in DOMAIN fetches :
        /\ fetches[k].pc = "fetchDeductions"
        /\ fetches' = WithoutFetch(k)
        /\ \E ok \in BOOLEAN :
              IF ~ ok
              THEN /\ errorToasts' = errorToasts + 1
                   /\ selections' = Outcome(fetches[k].sel, "failed")
                   /\ UNCHANGED <<successToasts, formEarnings, formDeductions,
                                  templateEarningCategories, templateDeductionCategories>>
              ELSE IF ~ IsLatest(fetches[k].templateId)
              THEN /\ selections' = Outcome(fetches[k].sel, "ignored")
                   /\ UNCHANGED <<toastVars, formEarnings, formDeductions,
                                  templateEarningCategories, templateDeductionCategories>>
              ELSE /\ PopulateForm(fetches[k].earningsData,
                                   TemplateCategories(template_deductions,
                                                      fetches[k].templateId))
                   /\ selections' = Outcome(fetches[k].sel, "loaded")
                   /\ UNCHANGED errorToasts
        /\ UNCHANGED <<dbVars, uiVars, localVars, exportedFile, historyVars,
                       backupVars, editVars, imported, exportVars, formTemplates,
                       selectedTemplateId, formOrganization, latestTemplateIdRef>>

\* the templates of the user: one with earnings and deductions, one with
\* earnings only, one with no category
FormTemplateRows ==
    {[id |-> "id-acme", name |-> "ACME"], [id |-> "id-tcs", name |-> "TCS"],
     [id |-> "id-new", name |-> "NEW"]}

FormTemplateEarnings ==
    <<[template_id |-> "id-tcs", category |-> "Basic Salary"],
      [template_id |-> "id-acme", category |-> "Stipend"],
      [template_id |-> "id-tcs", category |-> "HRA"]>>

FormTemplateDeductions == <<[template_id |-> "id-tcs", category |-> "Income Tax"]>>

InitForm ==
    /\ salary_records = {}
    /\ earnings = <<>>
    /\ deductions = <<>>
    /\ organization_templates = FormTemplateRows
    /\ template_earnings = FormTemplateEarnings
    /\ template_deductions = FormTemplateDeductions
    /\ nextId = 1
    /\ selectedFileName = ""
    /\ isProcessing = FALSE
    /\ processedRecords = 0
    /\ totalRecords = 0
    /\ importPlan = <<>>
    /\ showConfirm = FALSE
    /\ importSummary = <<>>
    /\ errorToasts = 0
    /\ successToasts = 0
    /\ pc = "idle"
    /\ file = NoFile
    /\ exportedFile = NoFile
    /\ si = 0
    /\ ri = 0
    /\ template = 0
    /\ salaryRecord = 0
    /\ totalRecordsImported = 0
    /\ totalTemplates = 0
    /\ uploads = 0
    /\ planStatus = "none"
    /\ calls = 0
    /\ recordsWritten = 0
    /\ aborted = FALSE
    /\ upsertHit = FALSE
    /\ removed = {}
    /\ imported = <<>>
    /\ backupDownload = <<>>
    /\ exports = 0
    /\ FormInitial(<<FetchTemplates>>)
    /\ BackupIdle
    /\ EditClosed

NextForm ==
    \/ FetchTemplatesDone
    \/ \E templateId \in SelectItems : HandleTemplateSelect(templateId)
    \/ TemplateEarningsFetched
    \/ TemplateDeductionsFetched

SpecForm == InitForm /\ [][NextForm]_vars

\* the description of a line item; "" where the column is NULL
DescriptionOf(item) == IF "description" \in DOMAIN item THEN item.description ELSE ""

ItemsWithDescription(rows, id) ==
    LET own == RowsOf(rows, "salary_record_id", id)
    IN  [k \in DOMAIN own |-> <<own[k].category, own[k].amount, DescriptionOf(own[k])>>]

ItemsWithoutDescription(rows, id) ==
    LET own == RowsOf(rows, "salary_record_id", id)
    IN  [k \in DOMAIN own |-> <<own[k].category, own[k].amount>>]

\* the salary records of an account with the line items of each
RecordsWithItems(tables) ==
    {[month |-> r.month, year |-> r.year, organization |-> r.organization,
      total_earnings |-> r.total_earnings, total_deductions |-> r.total_deductions,
      net_salary |-> r.net_salary, gross_salary |-> r.gross_salary,
      earnings |-> ItemsWithDescription(tables[2], r.id),
      deductions |-> ItemsWithDescription(tables[3], r.id)] : r \in tables[1]}

RecordsWithPlainItems(tables) ==
    {[month |-> r.month, year |-> r.year, organization |-> r.organization,
      total_earnings |-> r.total_earnings, total_deductions |-> r.total_deductions,
      net_salary |-> r.net_salary, gross_salary |-> r.gross_salary,
      earnings |-> ItemsWithoutDescription(tables[2], r.id),
      deductions |-> ItemsWithoutDescription(tables[3], r.id)] : r \in tables[1]}

\* the templates of an account with the categories of each
TemplatesWithCategories(tables) ==
    {[name |-> t.name,
      earningCategories |->
          [k \in DOMAIN RowsOf(tables[5], "template_id", t.id) |->
               RowsOf(tables[5], "template_id", t.id)[k].category],
      deductionCategories |->
          [k \in DOMAIN RowsOf(tables[6], "template_id", t.id) |->
               RowsOf(tables[6], "template_id", t.id)[k].category]] : t \in tables[4]}

\* the file restored last is an export of the account it was restored into,
\* and the restore ran to its end
ExportRestored ==
    /\ backupStatus = "restored"
    /\ \E recs \in Orderings(accountBefore[1][1]), tmpls \in Orderings(accountBefore[1][4]) :
          backupFile[1] = BackupPayload(accountBefore[1], recs, tmpls)

\* what the round trip does reproduce: the records, the category and amount of
\* every line item, the templates
RoundTripKeepsAllButDescriptions ==
    ExportRestored =>
        /\ RecordsWithPlainItems(AllTables) = RecordsWithPlainItems(accountBefore[1])
        /\ TemplatesWithCategories(AllTables) = TemplatesWithCategories(accountBefore[1])

\* C30: a backup exported from an account and restored into it without a
\* storage error reproduces the salary records, for each record its earnings
\* and deductions (category, amount, description), and the templates with
\* their categories.
C30_BackupRoundTrip ==
    ExportRestored =>
        /\ RecordsWithItems(AllTables) = RecordsWithItems(accountBefore[1])
        /\ TemplatesWithCategories(AllTables) = TemplatesWithCategories(accountBefore[1])

\* the rows the form shows for a list of categories of a template
RowsFor(categories, defaultCategory) ==
    IF categories = <<>>
    THEN <<[category |-> defaultCategory, amount |-> "", description |-> ""]>>
    ELSE [k \in DOMAIN categories |->
             [category |-> categories[k], amount |-> "0", description |-> ""]]

\* the categories of a template, in the order of the table
CategoriesOfTemplate(rows, templateId) ==
    LET own == SelectSeq(rows, LAMBDA r : r.template_id = templateId)
    IN  [k \in DOMAIN own |-> own[k].category]

\* the form shows the rows and the category options of templateId
FormShows(templateId) ==
    IF templateId = "none"
    THEN /\ formEarnings =
                <<[category |-> "Basic Salary", amount |-> "0", description |-> ""]>>
         /\ formDeductions =
                <<[category |-> "Provident Fund (PF)", amount |-> "0", description |-> ""]>>
         /\ templateEarningCategories = <<>>
         /\ templateDeductionCategories = <<>>
    ELSE /\ formEarnings =
                RowsFor(CategoriesOfTemplate(template_earnings, templateId), "Basic Salary")
         /\ formDeductions =
                RowsFor(CategoriesOfTemplate(template_deductions, templateId),
                        "Provident Fund (PF)")
         /\ templateEarningCategories = CategoriesOfTemplate(template_earnings, templateId)
         /\ templateDeductionCategories =
                CategoriesOfTemplate(template_deductions, templateId)

LastSelection == selections[Len(selections)]

\* where both fetches of the last selection succeeded, the form shows its
\* template once no call is under way
LatestShownWhenFetchSucceeds ==
    (fetches = <<>> /\ selections # <<>> /\ LastSelection.outcome # "failed")
        => FormShows(LastSelection.templateId)

\* a response to a call made for another item than the selected one changes
\* no row and no category option
StaleResponseChangesNothing ==
    [][\A k \in DOMAIN fetches :
          (fetches' = WithoutFetch(k) /\ fetches[k].pc # "fetchTemplates"
           /\ fetches[k].templateId # selectedTemplateId)
              => UNCHANGED <<formEarnings, formDeductions, templateEarningCategories,
                             templateDeductionCategories>>]_vars

\* C27: for every interleaving of template selections and of the responses to
\* their fetches, once no fetch is under way the rows and the category options
\* of the form are those of the template selected last.
C27_LatestTemplateShown ==
    (fetches = <<>> /\ selections # <<>>) => FormShows(LastSelection.templateId)

\* TCS was loaded, then ACME was selected and its fetch failed: the form has
\* the organization ACME and the rows and category options of TCS
EarlierSelectionShown ==
    /\ fetches = <<>>
    /\ Len(selections) = 2
    /\ selections[1] = [templateId |-> "id-tcs", outcome |-> "loaded"]
    /\ selections[2] = [templateId |-> "id-acme", outcome |-> "failed"]
    /\ selectedTemplateId = "id-acme"
    /\ formOrganization = "ACME"
    /\ FormShows("id-tcs")
====
